---- MODULE Spec2Model ----
(***************************************************************************)
(* Model of the SRT validator/fixer (josephnilo/validate_srt_script).      *)
(*                                                                         *)
(*   validator/fixer.py   fix_srt_subtitles                                *)
(*   validator/rules.py   validate_srt_content (pre-scan, parse, line map, *)
(*                        rule engine)                                     *)
(*   validator/models.py  ValidationError                                  *)
(*   validator/io.py      read_srt_content, write_srt                      *)
(*   validate_srt.py      process_srt_file, process_path, main             *)
(*                                                                         *)
(* Times are integers in milliseconds (SRT timestamps have millisecond     *)
(* resolution).  A text is a sequence of one-character strings; a file is  *)
(* a sequence of lines.  A subtitle record is                              *)
(*   [index, start, end, content]  with content a text that may hold "\n". *)
(***************************************************************************)
EXTENDS Integers, Sequences, FiniteSets, TLC

VARIABLES
    subtitles,      \* argument of the latest fix_srt_subtitles call
    fixed_subs,     \* the sequence it returned
    fixes_applied,  \* the fix-category list it returned
    fix_calls,      \* number of fix_srt_subtitles calls made so far
    written,        \* lines last written by write_srt (<<>> if none)
    content,        \* lines of the text handed to validate_srt_content
    args,           \* the four thresholds
    outcome,        \* result of the latest validate_srt_content call
    disk,           \* the files: name -> [srt, readable, lines]
    input_path,     \* "file", "dir" or "missing": what the input path is
    fix,            \* args.fix
    pc,             \* where the run of validate_srt.py stands
    todo,           \* files os.walk has still to yield, in its order
    log,            \* name -> what process_srt_file did with the file
    all_errors,     \* process_path's all_errors
    files_processed,
    files_with_errors,
    files_fixed,
    exit_code       \* status handed to sys.exit (<<>> while running)

unit_vars == <<subtitles, fixed_subs, fixes_applied, fix_calls, written,
               content, outcome>>

run_vars == <<disk, input_path, fix, pc, todo, log, all_errors,
              files_processed, files_with_errors, files_fixed, exit_code>>

vars == <<unit_vars, args, run_vars>>

(***************************************************************************)
(* Bounds of the model.                                                    *)
(***************************************************************************)
MaxSubs == 2        \* longest record sequence handed to the Fixer
MaxTime == 1        \* largest start offset (ms) of an input record
MaxFixCalls == 2    \* the Fixer is applied at most twice in a row

(***************************************************************************)
(* Texts.                                                                  *)
(***************************************************************************)
Whitespace == {" ", "\n", "\r", "\t"}

RECURSIVE LStrip(_)
LStrip(s) ==
    IF s # <<>> /\ Head(s) \in Whitespace THEN LStrip(Tail(s)) ELSE s

RECURSIVE RStrip(_)
RStrip(s) ==
    IF s # <<>> /\ s[Len(s)] \in Whitespace
    THEN RStrip(SubSeq(s, 1, Len(s) - 1))
    ELSE s

\* str.strip()
Strip(s) == RStrip(LStrip(s))

\* re.sub(r"\r", "", s)
RemoveCR(s) == SelectSeq(s, LAMBDA c : c # "\r")

\* re.sub(r"\n{3,}", "\n\n", s): a run of three or more "\n" becomes two.
RECURSIVE CollapseNewlines(_)
CollapseNewlines(s) ==
    IF Len(s) < 3 THEN s
    ELSE IF s[1] = "\n" /\ s[2] = "\n" /\ s[3] = "\n"
         THEN CollapseNewlines(Tail(s))
         ELSE <<Head(s)>> \o CollapseNewlines(Tail(s))

\* s.split("\n"): always at least one piece.
RECURSIVE SplitNL(_)
SplitNL(s) ==
    IF \A k \in 1..Len(s) : s[k] # "\n" THEN <<s>>
    ELSE LET k == CHOOSE j \in 1..Len(s) :
                      s[j] = "\n" /\ \A h \in 1..(j - 1) : s[h] # "\n"
         IN  <<SubSeq(s, 1, k - 1)>> \o SplitNL(SubSeq(s, k + 1, Len(s)))

(***************************************************************************)
(* The Fixer: validator/fixer.py.                                          *)
(***************************************************************************)
\* a slip: the label is appended whether or not it is already there
AddFixAgain(fixes, label) == Append(fixes, label)

\* if "X" not in fixes_applied: fixes_applied.append("X")
AddFix(fixes, label) ==
    IF \E k \in 1..Len(fixes) : fixes[k] = label THEN fixes
    ELSE Append(fixes, label)

\* a slip: the start is put on the previous end, not 1 ms behind it
PushedStartOnEnd(last_end_time) == last_end_time

\* start pushed behind the previous end
PushedStart(last_end_time) == last_end_time + 1

\* a slip: the end is put on the start, leaving a zero duration
PushedEndOnStart(start) == start

\* end pushed behind the start (minimum duration 1 ms)
PushedEnd(start) == start + 1

\* text normalisation of one record
NormalizeContent(c) == Strip(CollapseNewlines(RemoveCR(c)))

\* a slip: the index is compared with the 0-based position
IndexNeedsFixZeroBased(sub, pos) == sub.index # pos - 1

\* "if sub.index != i + 1" with i the 0-based position; pos is i + 1
IndexNeedsFix(sub, pos) == sub.index # pos

\* a slip: a start before the previous end is reported but left in place
FixStepKeepsStart(st, sub, pos) ==
    LET moveStart == sub.start < st.last_end_time
        start1    == sub.start
        f1        == IF moveStart THEN AddFix(st.fixes, "Timecode Fix")
                     ELSE st.fixes
        moveEnd   == sub.end <= start1
        end1      == IF moveEnd THEN PushedEnd(start1) ELSE sub.end
        f2        == IF moveEnd THEN AddFix(f1, "Timecode Fix") ELSE f1
        new_content == NormalizeContent(sub.content)
        changed   == new_content # sub.content
        f3        == IF changed THEN AddFix(f2, "Formatting Fix") ELSE f2
        sub1      == [index   |-> sub.index,
                      start   |-> start1,
                      end     |-> end1,
                      content |-> IF changed THEN new_content
                                  ELSE sub.content]
    IN  [subs          |-> Append(st.subs, sub1),
         last_end_time |-> end1,
         fixes         |-> f3,
         needs_reindex |-> st.needs_reindex \/ IndexNeedsFix(sub, pos)]

\* One iteration of the loop body on record sub at 1-based position pos.
\* st = [subs, last_end_time, fixes, needs_reindex]
FixStep(st, sub, pos) ==
    LET moveStart == sub.start < st.last_end_time
        start1    == IF moveStart THEN PushedStart(st.last_end_time)
                     ELSE sub.start
        f1        == IF moveStart THEN AddFix(st.fixes, "Timecode Fix")
                     ELSE st.fixes
        moveEnd   == sub.end <= start1
        end1      == IF moveEnd THEN PushedEnd(start1) ELSE sub.end
        f2        == IF moveEnd THEN AddFix(f1, "Timecode Fix") ELSE f1
        new_content == NormalizeContent(sub.content)
        changed   == new_content # sub.content
        f3        == IF changed THEN AddFix(f2, "Formatting Fix") ELSE f2
        sub1      == [index   |-> sub.index,
                      start   |-> start1,
                      end     |-> end1,
                      content |-> IF changed THEN new_content
                                  ELSE sub.content]
    IN  [subs          |-> Append(st.subs, sub1),
         last_end_time |-> end1,
         fixes         |-> f3,
         needs_reindex |-> st.needs_reindex \/ IndexNeedsFix(sub, pos)]

RECURSIVE FixLoop(_, _, _)
FixLoop(st, subs, pos) ==
    IF pos > Len(subs) THEN st
    ELSE FixLoop(FixStep(st, subs[pos], pos), subs, pos + 1)

\* a slip: records are renumbered from 0
ReindexFromZero(subs) ==
    [i \in 1..Len(subs) |-> [subs[i] EXCEPT !.index = i - 1]]

\* "for i, sub in enumerate(fixed_subs): sub.index = i + 1"
Reindex(subs) ==
    [i \in 1..Len(subs) |-> [subs[i] EXCEPT !.index = i]]

\* a slip: the records are renumbered when the last record is out of place,
\* whatever the records before it
fix_srt_subtitles_last_index_only(subs) ==
    LET st == FixLoop([subs |-> <<>>, last_end_time |-> 0,
                       fixes |-> <<>>, needs_reindex |-> FALSE], subs, 1)
    IN  IF subs # <<>> /\ IndexNeedsFix(subs[Len(subs)], Len(subs))
        THEN [subs  |-> Reindex(st.subs),
              fixes |-> AddFix(st.fixes, "Numbering Fix")]
        ELSE [subs |-> st.subs, fixes |-> st.fixes]

\* fix_srt_subtitles(subtitles) -> (fixed_subs, fixes_applied)
fix_srt_subtitles(subs) ==
    LET st == FixLoop([subs |-> <<>>, last_end_time |-> 0,
                       fixes |-> <<>>, needs_reindex |-> FALSE], subs, 1)
    IN  IF st.needs_reindex
        THEN [subs  |-> Reindex(st.subs),
              fixes |-> AddFix(st.fixes, "Numbering Fix")]
        ELSE [subs |-> st.subs, fixes |-> st.fixes]

(***************************************************************************)
(* Lines of a file.  A line either holds the arrow token "-->" (arrow =    *)
(* TRUE; ok says whether the stripped line matches the strict timecode     *)
(* grammar, parses whether the library's own block pattern accepts it,     *)
(* start/end are the two timestamps in ms) or is plain text (chars,        *)
(* without line break).  The characters of a timecode line stand for the   *)
(* whole line; its timestamps are kept in start and end.                   *)
(***************************************************************************)
TextLine(chars) ==
    [arrow |-> FALSE, ok |-> FALSE, parses |-> FALSE, start |-> 0, end |-> 0,
     chars |-> chars]

\* a line of the strict form (ok), or one that neither the strict grammar
\* nor the library accepts, such as "00:00:01 --> 00:00:03,000"
TimecodeLine(ok, start, end) ==
    [arrow |-> TRUE, ok |-> ok, parses |-> ok, start |-> start, end |-> end,
     chars |-> <<"-", "-", ">">>]

\* a line the library accepts although it is not of the strict form, such
\* as "0:00:01,000 --> 0:00:03,000": the library takes any number of digits
\* per field, the strict grammar exactly two (three for the milliseconds)
LooseTimecodeLine(start, end) ==
    [arrow |-> TRUE, ok |-> FALSE, parses |-> TRUE, start |-> start,
     end |-> end, chars |-> <<"-", "-", ">">>]

DigitChars == <<"0", "1", "2", "3", "4", "5", "6", "7", "8", "9">>

IsDigit(c) == \E d \in 1..Len(DigitChars) : DigitChars[d] = c

DigitValue(c) == (CHOOSE d \in 1..Len(DigitChars) : DigitChars[d] = c) - 1

\* re.match(r"^\d+$", s)
AllDigits(s) == s # <<>> /\ \A k \in 1..Len(s) : IsDigit(s[k])

\* int(s) for a string of digits
RECURSIVE ParseInt(_)
ParseInt(s) ==
    IF s = <<>> THEN 0
    ELSE 10 * ParseInt(SubSeq(s, 1, Len(s) - 1)) + DigitValue(s[Len(s)])

\* str(n) for n >= 0
RECURSIVE Digits(_)
Digits(n) ==
    IF n < 10 THEN <<DigitChars[n + 1]>>
    ELSE Digits(n \div 10) \o <<DigitChars[(n % 10) + 1]>>

\* line.strip() of a line
StrippedChars(line) == Strip(line.chars)

\* not line.strip(): the line is empty or whitespace only
IsBlankLine(line) == ~line.arrow /\ StrippedChars(line) = <<>>

\* the stripped line is a bare unsigned integer
IsIndexLine(line) == ~line.arrow /\ AllDigits(StrippedChars(line))

(***************************************************************************)
(* srt.compose(subtitles, reindex=False) as called by write_srt, and       *)
(* srt.parse as called by validate_srt_content and the fix stage.          *)
(***************************************************************************)
RECURSIVE StripNL(_)
StripNL(s) ==
    IF s # <<>> /\ Head(s) = "\n" THEN StripNL(Tail(s))
    ELSE IF s # <<>> /\ s[Len(s)] = "\n"
         THEN StripNL(SubSeq(s, 1, Len(s) - 1))
         ELSE s

\* a run of two or more "\n" becomes one
RECURSIVE SqueezeNL(_)
SqueezeNL(s) ==
    IF Len(s) < 2 THEN s
    ELSE IF s[1] = "\n" /\ s[2] = "\n" THEN SqueezeNL(Tail(s))
         ELSE <<Head(s)>> \o SqueezeNL(Tail(s))

\* the serializer drops blank lines from a record's content
make_legal_content(c) == SqueezeNL(StripNL(c))

\* one block: index line, timecode line, content lines, blank line
to_srt(sub) ==
    <<TextLine(Digits(sub.index)), TimecodeLine(TRUE, sub.start, sub.end)>>
    \o [k \in 1..Len(SplitNL(make_legal_content(sub.content))) |->
            TextLine(SplitNL(make_legal_content(sub.content))[k])]
    \o <<TextLine(<<>>)>>

RECURSIVE compose(_)
compose(subs) ==
    IF subs = <<>> THEN <<>>
    ELSE to_srt(Head(subs)) \o compose(Tail(subs))

\* "\n".join(lines)
RECURSIVE JoinNL(_)
JoinNL(lines) ==
    IF lines = <<>> THEN <<>>
    ELSE IF Len(lines) = 1 THEN lines[1].chars
         ELSE lines[1].chars \o <<"\n">> \o JoinNL(Tail(lines))

\* an index line directly followed by a timecode line the parser accepts
IsBlockStart(lines, j) ==
    /\ j + 1 <= Len(lines)
    /\ IsIndexLine(lines[j])
    /\ lines[j + 1].arrow /\ lines[j + 1].parses

\* The content of the block whose timecode line is lines[t] runs to the
\* first line boundary that is followed by (an optional empty line and then)
\* the next block start or the end of the text.  Returns the position of
\* the last content line (t when the text ends at the timecode line).
ContentEnd(lines, t) ==
    IF t = Len(lines) THEN t
    ELSE CHOOSE q \in (t + 1)..Len(lines) :
            LET Closes(k) ==
                    \/ k + 1 > Len(lines)
                    \/ IsBlockStart(lines, k + 1)
                    \/ /\ lines[k + 1] = TextLine(<<>>)
                       /\ \/ k + 2 > Len(lines)
                          \/ IsBlockStart(lines, k + 2)
            IN  Closes(q) /\ \A h \in (t + 1)..(q - 1) : ~Closes(h)

\* position after the block's content and its closing empty line
AfterBlock(lines, q) ==
    IF q + 1 <= Len(lines) /\ ~IsBlockStart(lines, q + 1) THEN q + 2
    ELSE q + 1

RECURSIVE ParseFrom(_, _, _)
ParseFrom(lines, pos, acc) ==
    IF pos > Len(lines) THEN [ok |-> TRUE, subs |-> acc]
    ELSE IF IsBlankLine(lines[pos]) THEN ParseFrom(lines, pos + 1, acc)
    ELSE IF ~IsBlockStart(lines, pos) THEN [ok |-> FALSE, subs |-> <<>>]
    ELSE LET q   == ContentEnd(lines, pos + 1)
             sub == [index   |-> ParseInt(StrippedChars(lines[pos])),
                     start   |-> lines[pos + 1].start,
                     end     |-> lines[pos + 1].end,
                     content |-> JoinNL(SubSeq(lines, pos + 2, q))]
         IN  ParseFrom(lines, AfterBlock(lines, q), Append(acc, sub))

\* srt.parse(content): ok = FALSE models the parser raising
parse(lines) == ParseFrom(lines, 1, <<>>)

(***************************************************************************)
(* Diagnostics: validator/models.py.  An Optional[int] is <<>> (None) or   *)
(* <<n>>.  A message is its wording (id) with the two values it embeds.    *)
(***************************************************************************)
None == <<>>

Some(n) == <<n>>

\* the fields of the ValidationError named tuple
ValidationErrorFields ==
    {"file_path", "subtitle_index", "line_number", "error_type", "message",
     "content"}

\* the arguments every construction passes (positionally or by keyword)
BasicArguments ==
    {"file_path", "subtitle_index", "line_number", "error_type", "message"}

\* a named-tuple constructor raises TypeError on an unknown keyword
ConstructorAccepts(arguments) == arguments \subseteq ValidationErrorFields

Message(id, a, b) == [id |-> id, a |-> a, b |-> b]

ValidationError(subtitle_index, line_number, error_type, message) ==
    [subtitle_index |-> subtitle_index,
     line_number    |-> line_number,
     error_type     |-> error_type,
     message        |-> message]

(***************************************************************************)
(* validate_srt_content, pre-parsing checks: validator/rules.py 25-66.     *)
(***************************************************************************)
\* a slip: a timecode line that fails the grammar is not taken for the
\* timecode line of the block, so the scan keeps waiting for one
PreScanStepAwaitsOnMismatch(st, line, line_num) ==
    IF IsIndexLine(line) /\ ~st.in_subtitle_block
    THEN [st EXCEPT !.in_subtitle_block = TRUE,
                    !.current_index = Some(ParseInt(StrippedChars(line))),
                    !.have_timecode_line = FALSE,
                    !.found_subs = TRUE]
    ELSE IF line.arrow /\ st.in_subtitle_block /\ ~st.have_timecode_line
    THEN [st EXCEPT !.have_timecode_line = line.ok,
                    !.errors =
                        IF ~line.ok
                        THEN Append(@, ValidationError(
                                 st.current_index, Some(line_num),
                                 "Timecode Format Error",
                                 Message("timecode_format", 0, 0)))
                        ELSE @]
    ELSE IF IsBlankLine(line) /\ st.in_subtitle_block
    THEN [st EXCEPT !.in_subtitle_block = FALSE,
                    !.current_index = None,
                    !.have_timecode_line = FALSE]
    ELSE st

\* one iteration of the pre-scan loop on the line at 1-based line_num
PreScanStep(st, line, line_num) ==
    IF IsIndexLine(line) /\ ~st.in_subtitle_block
    THEN [st EXCEPT !.in_subtitle_block = TRUE,
                    !.current_index = Some(ParseInt(StrippedChars(line))),
                    !.have_timecode_line = FALSE,
                    !.found_subs = TRUE]
    ELSE IF line.arrow /\ st.in_subtitle_block /\ ~st.have_timecode_line
    THEN [st EXCEPT !.have_timecode_line = TRUE,
                    !.errors =
                        IF ~line.ok
                        THEN Append(@, ValidationError(
                                 st.current_index, Some(line_num),
                                 "Timecode Format Error",
                                 Message("timecode_format", 0, 0)))
                        ELSE @]
    ELSE IF IsBlankLine(line) /\ st.in_subtitle_block
    THEN [st EXCEPT !.in_subtitle_block = FALSE,
                    !.current_index = None,
                    !.have_timecode_line = FALSE]
    ELSE st

RECURSIVE PreScanLoop(_, _, _)
PreScanLoop(st, lines, line_num) ==
    IF line_num > Len(lines) THEN st
    ELSE PreScanLoop(PreScanStep(st, lines[line_num], line_num),
                     lines, line_num + 1)

PreScan(lines) ==
    PreScanLoop([in_subtitle_block  |-> FALSE,
                 current_index      |-> None,
                 have_timecode_line |-> FALSE,
                 found_subs         |-> FALSE,
                 errors             |-> <<>>], lines, 1)

\* a slip: only a text without any line counts as empty
IsEmptyTextNoLines(lines) == lines = <<>>

\* not content.strip()
IsEmptyText(lines) == \A k \in 1..Len(lines) : IsBlankLine(lines[k])

\* a slip: the "no blocks found" halt is never taken
NoSubtitleBlocksNever(pre) == FALSE

\* "not found_subs" (content.strip() is non-empty on this branch)
NoSubtitleBlocks(pre) == ~pre.found_subs

\* a slip: the halt on a Timecode Format Error is never taken
HasTimecodeFormatErrorNever(errors) == FALSE

HasTimecodeFormatError(errors) ==
    \E k \in 1..Len(errors) : errors[k].error_type = "Timecode Format Error"

(***************************************************************************)
(* validate_srt_content, line map: validator/rules.py 149-177.             *)
(***************************************************************************)
MapPut(m, key, value) ==
    [k \in (DOMAIN m) \cup {key} |-> IF k = key THEN value ELSE m[k]]

\* subtitle_line_map.get(index, None)
MapGet(m, key) == IF key \in DOMAIN m THEN Some(m[key]) ELSE None

\* st = [map, current_sub_index_str, current_sub_start_line]
LineMapStep(st, line, line_num) ==
    IF IsIndexLine(line)
    THEN [map |-> IF st.current_sub_index_str # <<>>
                  THEN MapPut(st.map, ParseInt(st.current_sub_index_str),
                              st.current_sub_start_line)
                  ELSE st.map,
          current_sub_index_str  |-> StrippedChars(line),
          current_sub_start_line |-> line_num]
    ELSE IF line.arrow /\ st.current_sub_index_str # <<>>
    THEN [map |-> MapPut(st.map, ParseInt(st.current_sub_index_str),
                         st.current_sub_start_line),
          current_sub_index_str  |-> <<>>,
          current_sub_start_line |-> st.current_sub_start_line]
    ELSE st

RECURSIVE LineMapLoop(_, _, _)
LineMapLoop(st, lines, line_num) ==
    IF line_num > Len(lines) THEN st
    ELSE LineMapLoop(LineMapStep(st, lines[line_num], line_num),
                     lines, line_num + 1)

subtitle_line_map(lines) ==
    LET st == LineMapLoop([map |-> <<>>, current_sub_index_str |-> <<>>,
                           current_sub_start_line |-> 0], lines, 1)
    IN  IF st.current_sub_index_str # <<>>
        THEN MapPut(st.map, ParseInt(st.current_sub_index_str),
                    st.current_sub_start_line)
        ELSE st.map

(***************************************************************************)
(* validate_srt_content, rule engine: validator/rules.py 179-312.          *)
(***************************************************************************)
\* re.sub(r"<[^>]+>", "", line)
RECURSIVE StripTags(_)
StripTags(s) ==
    IF s = <<>> THEN <<>>
    ELSE IF /\ Head(s) = "<"
            /\ \E q \in 3..Len(s) :
                  s[q] = ">" /\ \A h \in 2..(q - 1) : s[h] # ">"
         THEN LET q == CHOOSE r \in 3..Len(s) :
                          s[r] = ">" /\ \A h \in 2..(r - 1) : s[h] # ">"
              IN  StripTags(SubSeq(s, q + 1, Len(s)))
         ELSE <<Head(s)>> \o StripTags(Tail(s))

\* str.lower() on the letters of the tag names
LowerChar(c) ==
    CASE c = "I" -> "i" [] c = "B" -> "b" [] c = "U" -> "u"
      [] c = "F" -> "f" [] c = "O" -> "o" [] c = "N" -> "n"
      [] c = "T" -> "t" [] OTHER -> c

Lower(s) == [k \in 1..Len(s) |-> LowerChar(s[k])]

\* s.count(pat): non-overlapping occurrences, left to right
RECURSIVE Count(_, _)
Count(s, pat) ==
    IF Len(s) < Len(pat) THEN 0
    ELSE IF SubSeq(s, 1, Len(pat)) = pat
         THEN 1 + Count(SubSeq(s, Len(pat) + 1, Len(s)), pat)
         ELSE Count(Tail(s), pat)

common_tags == << <<"i">>, <<"b">>, <<"u">>, <<"f", "o", "n", "t">> >>

TagMessageId ==
    <<"mismatched_i_tag", "mismatched_b_tag", "mismatched_u_tag",
      "mismatched_font_tag">>

\* 6. unclosed tag check of one record for the tag number t
TagMismatch(text, t) ==
    LET tag        == common_tags[t]
        open_count == Count(Lower(text), <<"<">> \o tag \o <<">">>)
                      + Count(Lower(text), <<"<">> \o tag \o <<" ">>)
        close_count == Count(Lower(text), <<"<", "/">> \o tag \o <<">">>)
    IN  open_count # close_count

RECURSIVE TagErrors(_, _, _)
TagErrors(sub, start_line, t) ==
    IF t > Len(common_tags) THEN <<>>
    ELSE (IF TagMismatch(sub.content, t)
          THEN <<ValidationError(Some(sub.index), start_line, "Format Error",
                                 Message(TagMessageId[t], 0, 0))>>
          ELSE <<>>)
         \o TagErrors(sub, start_line, t + 1)

\* the keyword arguments of the line-length diagnostic (rules.py 276-284)
LineLengthArguments == BasicArguments \cup {"content", "severity"}

\* line number of a line-length diagnostic: "start_line + i + 2 if
\* start_line else None", i the 0-based offset of the content line
LineLengthLineNumber(start_line, i) ==
    IF start_line # None /\ start_line[1] # 0
    THEN Some(start_line[1] + i + 2)
    ELSE None

\* 5b. the loop over the content lines from 1-based position k on;
\* st = [errors, raised]
RECURSIVE LineLengthLoop(_, _, _, _, _, _)
LineLengthLoop(st, sub, start_line, lines, k, max_chars_per_line) ==
    IF k > Len(lines) \/ st.raised THEN st
    ELSE LET line_no_tags == StripTags(lines[k])
         IN  IF Len(line_no_tags) > max_chars_per_line
             THEN IF ConstructorAccepts(LineLengthArguments)
                  THEN LineLengthLoop(
                         [st EXCEPT !.errors = Append(@,
                            [subtitle_index |-> Some(sub.index),
                             line_number    |->
                                 LineLengthLineNumber(start_line, k - 1),
                             error_type     |-> "Format Error",
                             message        |-> Message("line_too_long",
                                 Len(line_no_tags), max_chars_per_line),
                             severity       |-> "warning"])],
                         sub, start_line, lines, k + 1, max_chars_per_line)
                  ELSE [st EXCEPT !.raised = TRUE]
             ELSE LineLengthLoop(st, sub, start_line, lines, k + 1,
                                 max_chars_per_line)

\* 5. content checks; st = [errors, raised]
ContentChecks(st, sub, start_line, a) ==
    LET lines == SplitNL(Strip(sub.content))
    IN  IF Strip(sub.content) = <<>>
        THEN [st EXCEPT !.errors = Append(@,
                 ValidationError(Some(sub.index), start_line, "Content Error",
                                 Message("empty_content", 0, 0)))]
        ELSE LineLengthLoop(
               [st EXCEPT !.errors =
                    IF Len(lines) > a.max_lines_per_sub
                    THEN Append(@, ValidationError(
                             Some(sub.index), start_line, "Format Error",
                             Message("too_many_lines", Len(lines),
                                     a.max_lines_per_sub)))
                    ELSE @],
               sub, start_line, lines, 1, a.max_chars_per_line)

\* a slip: the overlap check comes before the order check
TimingErrorsOverlapFirst(sub, start_line, expected_index, last_end_time, a) ==
    LET duration_ms == sub.end - sub.start
    IN  (IF sub.index # expected_index
         THEN <<ValidationError(Some(sub.index), start_line, "Index Error",
                    Message("expected_index", expected_index, sub.index))>>
         ELSE <<>>)
        \o
        (IF sub.start < last_end_time
         THEN <<ValidationError(Some(sub.index), start_line, "Timecode Error",
                    Message("overlaps_previous", last_end_time, sub.start))>>
         ELSE <<>>)
        \o
        (IF sub.start >= sub.end
         THEN <<ValidationError(Some(sub.index), start_line, "Timecode Error",
                    Message("start_not_before_end", sub.start, sub.end))>>
         ELSE <<>>)
        \o
        (IF duration_ms < a.min_duration_ms
         THEN <<ValidationError(Some(sub.index), start_line, "Duration Error",
                    Message("less_than_minimum", duration_ms,
                            a.min_duration_ms))>>
         ELSE <<>>)
        \o
        (IF duration_ms > a.max_duration_ms
         THEN <<ValidationError(Some(sub.index), start_line, "Duration Error",
                    Message("greater_than_maximum", duration_ms,
                            a.max_duration_ms))>>
         ELSE <<>>)

\* 1.-4. index, order, overlap and duration checks of one record
TimingErrors(sub, start_line, expected_index, last_end_time, a) ==
    LET duration_ms == sub.end - sub.start
    IN  (IF sub.index # expected_index
         THEN <<ValidationError(Some(sub.index), start_line, "Index Error",
                    Message("expected_index", expected_index, sub.index))>>
         ELSE <<>>)
        \o
        (IF sub.start >= sub.end
         THEN <<ValidationError(Some(sub.index), start_line, "Timecode Error",
                    Message("start_not_before_end", sub.start, sub.end))>>
         ELSE <<>>)
        \o
        (IF sub.start < last_end_time
         THEN <<ValidationError(Some(sub.index), start_line, "Timecode Error",
                    Message("overlaps_previous", last_end_time, sub.start))>>
         ELSE <<>>)
        \o
        (IF duration_ms < a.min_duration_ms
         THEN <<ValidationError(Some(sub.index), start_line, "Duration Error",
                    Message("less_than_minimum", duration_ms,
                            a.min_duration_ms))>>
         ELSE <<>>)
        \o
        (IF duration_ms > a.max_duration_ms
         THEN <<ValidationError(Some(sub.index), start_line, "Duration Error",
                    Message("greater_than_maximum", duration_ms,
                            a.max_duration_ms))>>
         ELSE <<>>)

\* one iteration that leaves expected_index as it was
RuleStepKeepsExpectedIndex(st, sub, map, a) ==
    LET start_line == MapGet(map, sub.index)
        timed == st.errors \o TimingErrors(sub, start_line, st.expected_index,
                                         st.last_end_time, a)
        checked == ContentChecks([errors |-> timed, raised |-> FALSE],
                                 sub, start_line, a)
    IN  IF checked.raised
        THEN [st EXCEPT !.raised = TRUE]
        ELSE [errors         |-> checked.errors
                                 \o TagErrors(sub, start_line, 1),
              raised         |-> FALSE,
              last_end_time  |-> sub.end,
              expected_index |-> st.expected_index]

\* one iteration of "for sub in subtitles";
\* st = [errors, raised, last_end_time, expected_index]
RuleStep(st, sub, map, a) ==
    LET start_line == MapGet(map, sub.index)
        timed == st.errors \o TimingErrors(sub, start_line, st.expected_index,
                                         st.last_end_time, a)
        checked == ContentChecks([errors |-> timed, raised |-> FALSE],
                                 sub, start_line, a)
    IN  IF checked.raised
        THEN [st EXCEPT !.raised = TRUE]
        ELSE [errors         |-> checked.errors
                                 \o TagErrors(sub, start_line, 1),
              raised         |-> FALSE,
              last_end_time  |-> sub.end,
              expected_index |-> st.expected_index + 1]

RECURSIVE RuleLoop(_, _, _, _, _)
RuleLoop(st, subs, k, map, a) ==
    IF k > Len(subs) \/ st.raised THEN st
    ELSE RuleLoop(RuleStep(st, subs[k], map, a), subs, k + 1, map, a)

(***************************************************************************)
(* validate_srt_content(file_path, content, ...): validator/rules.py.      *)
(* Result: raised (an exception left the function), parsed (srt.parse was  *)
(* called), errors (the list returned; empty when raised).                 *)
(***************************************************************************)
Returned(errors, parsed) ==
    [called |-> TRUE, raised |-> FALSE, parsed |-> parsed, errors |-> errors]

Raised(parsed) ==
    [called |-> TRUE, raised |-> TRUE, parsed |-> parsed, errors |-> <<>>]

validate_srt_content(lines, a) ==
    LET pre == PreScan(lines)
    IN  IF IsEmptyText(lines)
        THEN Returned(Append(pre.errors,
                 ValidationError(None, Some(1), "Content Error",
                                 Message("file_empty", 0, 0))), FALSE)
        ELSE IF NoSubtitleBlocks(pre)
        THEN Returned(Append(pre.errors,
                 ValidationError(None, Some(1), "Parsing Error",
                                 Message("no_blocks_found", 0, 0))), FALSE)
        ELSE IF HasTimecodeFormatError(pre.errors)
        THEN Returned(pre.errors, FALSE)
        ELSE
        LET parsed_subs == parse(lines)
        IN  IF ~parsed_subs.ok
            THEN \* except Exception: line_num_guess = getattr(e, "lineno", 1)
                 LET line_num_guess == 1
                 IN  IF ~\E k \in 1..Len(pre.errors) :
                            /\ pre.errors[k].line_number = Some(line_num_guess)
                            /\ pre.errors[k].error_type
                                   = "Timecode Format Error"
                     THEN Returned(Append(pre.errors,
                              ValidationError(None, Some(line_num_guess),
                                  "Parsing Error",
                                  Message("parsing_failed", 0, 0))), TRUE)
                     ELSE Returned(pre.errors, TRUE)
            ELSE
            LET errors1 == IF parsed_subs.subs = <<>>
                           THEN Append(pre.errors,
                                    ValidationError(None, Some(1),
                                        "Parsing Error",
                                        Message("no_subtitles_parsed", 0, 0)))
                           ELSE pre.errors
                st == RuleLoop([errors |-> errors1, raised |-> FALSE,
                                last_end_time |-> 0, expected_index |-> 1],
                               parsed_subs.subs, 1,
                               subtitle_line_map(lines), a)
            IN  IF st.raised THEN Raised(TRUE)
                ELSE Returned(st.errors, TRUE)

(***************************************************************************)
(* validate_srt.py holds its own copies of the functions of the validator  *)
(* package, and process_srt_file calls those copies.  Its pre-scan, line   *)
(* map, parser call, index, timing, duration, empty-content, line-count    *)
(* and tag checks and its Fixer are the same code as in the package, so    *)
(* the definitions above stand for them.  It differs in the line-length    *)
(* diagnostic (validate_srt.py 224-228: offset 1, no severity) and in the  *)
(* line guess after a parser failure (139-151), which stays 1 because the  *)
(* library's exceptions neither carry lineno nor mention "time string".    *)
(***************************************************************************)
\* "start_line + i + 1 if start_line else None"
ScriptLineLengthLineNumber(start_line, i) ==
    IF start_line # None /\ start_line[1] # 0
    THEN Some(start_line[1] + i + 1)
    ELSE None

\* 5b. the line-length diagnostics of the content lines from position k on
RECURSIVE ScriptLineLengthErrors(_, _, _, _, _)
ScriptLineLengthErrors(sub, start_line, lines, k, max_chars_per_line) ==
    IF k > Len(lines) THEN <<>>
    ELSE (IF Len(StripTags(lines[k])) > max_chars_per_line
          THEN <<ValidationError(Some(sub.index),
                     ScriptLineLengthLineNumber(start_line, k - 1),
                     "Format Error",
                     Message("line_too_long", Len(StripTags(lines[k])),
                             max_chars_per_line))>>
          ELSE <<>>)
         \o ScriptLineLengthErrors(sub, start_line, lines, k + 1,
                                   max_chars_per_line)

\* 5. content checks
ScriptContentErrors(sub, start_line, a) ==
    LET lines == SplitNL(Strip(sub.content))
    IN  IF Strip(sub.content) = <<>>
        THEN <<ValidationError(Some(sub.index), start_line, "Content Error",
                               Message("empty_content", 0, 0))>>
        ELSE (IF Len(lines) > a.max_lines_per_sub
              THEN <<ValidationError(Some(sub.index), start_line,
                         "Format Error",
                         Message("too_many_lines", Len(lines),
                                 a.max_lines_per_sub))>>
              ELSE <<>>)
             \o ScriptLineLengthErrors(sub, start_line, lines, 1,
                                       a.max_chars_per_line)

\* one iteration of "for sub in subtitles";
\* st = [errors, last_end_time, expected_index]
ScriptRuleStep(st, sub, map, a) ==
    LET start_line == MapGet(map, sub.index)
    IN  [errors         |-> st.errors
                            \o TimingErrors(sub, start_line,
                                   st.expected_index, st.last_end_time, a)
                            \o ScriptContentErrors(sub, start_line, a)
                            \o TagErrors(sub, start_line, 1),
         last_end_time  |-> sub.end,
         expected_index |-> st.expected_index + 1]

RECURSIVE ScriptRuleLoop(_, _, _, _, _)
ScriptRuleLoop(st, subs, k, map, a) ==
    IF k > Len(subs) THEN st
    ELSE ScriptRuleLoop(ScriptRuleStep(st, subs[k], map, a), subs, k + 1,
                        map, a)

\* validate_srt.validate_srt_content: the list of diagnostics it returns
script_validate_srt_content(lines, a) ==
    LET pre == PreScan(lines)
    IN  IF IsEmptyText(lines)
        THEN Append(pre.errors,
                 ValidationError(None, Some(1), "Content Error",
                                 Message("file_empty", 0, 0)))
        ELSE IF NoSubtitleBlocks(pre)
        THEN Append(pre.errors,
                 ValidationError(None, Some(1), "Parsing Error",
                                 Message("no_blocks_found", 0, 0)))
        ELSE IF HasTimecodeFormatError(pre.errors)
        THEN pre.errors
        ELSE IF ~parse(lines).ok
        THEN LET line_num_guess == 1
             IN  IF ~\E k \in 1..Len(pre.errors) :
                        /\ pre.errors[k].line_number = Some(line_num_guess)
                        /\ pre.errors[k].error_type = "Timecode Format Error"
                 THEN Append(pre.errors,
                          ValidationError(None, Some(line_num_guess),
                              "Parsing Error",
                              Message("parsing_failed", 0, 0)))
                 ELSE pre.errors
        ELSE ScriptRuleLoop(
                 [errors |-> IF parse(lines).subs = <<>>
                             THEN Append(pre.errors,
                                      ValidationError(None, Some(1),
                                          "Parsing Error",
                                          Message("no_subtitles_parsed", 0, 0)))
                             ELSE pre.errors,
                  last_end_time |-> 0, expected_index |-> 1],
                 parse(lines).subs, 1, subtitle_line_map(lines), a).errors

(***************************************************************************)
(* validate_srt.py, processing: read_srt_content (27-35, the same code as  *)
(* validator/io.py 6-20), write_srt (37-45), process_srt_file (301-349).   *)
(* A file on disk is [srt, readable, lines]: srt says whether its name     *)
(* ends in ".srt", readable whether open() for reading succeeds.           *)
(***************************************************************************)
FileError(id) == ValidationError(None, None, "File Error", Message(id, 0, 0))

\* a reader that hands out the lines of a file it cannot read
read_srt_content_unguarded(file) ==
    [content |-> Some(file.lines), read_error |-> None]

\* read_srt_content(file_path): (content, None) or (None, File Error)
read_srt_content(file) ==
    IF file.readable
    THEN [content |-> Some(file.lines), read_error |-> None]
    ELSE [content |-> None, read_error |-> Some(FileError("read_failed"))]

\* what the file system does with the write: open() and write() succeed,
\* open() fails and leaves the file as it is, or open() truncates the file
\* and write() fails
WriteOutcomes == {"written", "open_failed", "write_failed"}

\* write_srt(file_path, subtitles) on a file holding lines, under the
\* outcome w: the lines afterwards and the value returned
WriteSrt(lines, subs, w) ==
    CASE w = "written" ->
           [lines |-> compose(subs), write_error |-> None]
      [] w = "open_failed" ->
           [lines |-> lines, write_error |-> Some(FileError("write_failed"))]
      [] OTHER ->
           [lines |-> <<>>, write_error |-> Some(FileError("write_failed"))]

\* what process_srt_file did: the pair it returns (errors, fixes), the
\* text it read (<<>> if reading failed), the lines of the file afterwards,
\* and a record of the calls it made
Processed(errors, fixes, text, lines, validated, reparsed, fixer_called, write_attempted, rewritten, raised) ==
    [errors          |-> errors,
     fixes           |-> fixes,
     text            |-> text,
     lines           |-> lines,
     validated       |-> validated,
     reparsed        |-> reparsed,
     fixer_called    |-> fixer_called,
     write_attempted |-> write_attempted,
     rewritten       |-> rewritten,
     raised          |-> raised]

\* the handler that swallows the exception and reports nothing
FixingFailedSilently(validation_errors, text, lines) ==
    Processed(validation_errors, <<>>, text, lines, 1,
              TRUE, FALSE, FALSE, FALSE, TRUE)

\* "except Exception as e" of process_srt_file: the exception raised in the
\* try block is turned into a Fixing Error appended to the diagnostics; the
\* fix list is still the empty one and nothing was written
FixingFailed(validation_errors, text, lines) ==
    Processed(Append(validation_errors,
                  ValidationError(None, None, "Fixing Error",
                                  Message("fix_failed", 0, 0))),
              <<>>, text, lines, 1,
              TRUE, FALSE, FALSE, FALSE, TRUE)

\* "if validation_errors and args.fix"
AttemptsFix(validation_errors, fix_requested) ==
    validation_errors # <<>> /\ fix_requested

\* process_srt_file(file_path, args) under the write outcome w; the branch
\* of lines 307-308 (no content and no read error) cannot be taken
process_srt_file(file, a, fix_requested, w) ==
    LET rd == read_srt_content(file)
    IN  IF rd.read_error # None
        THEN Processed(<<rd.read_error[1]>>, <<>>, <<>>, file.lines, 0,
                       FALSE, FALSE, FALSE, FALSE, FALSE)
        ELSE
        LET text == rd.content[1]
            validation_errors == script_validate_srt_content(text, a)
        IN  IF ~AttemptsFix(validation_errors, fix_requested)
            THEN Processed(validation_errors, <<>>, text, file.lines, 1,
                           FALSE, FALSE, FALSE, FALSE, FALSE)
            ELSE IF ~parse(text).ok
            THEN \* srt.parse raises inside the try block
                 FixingFailed(validation_errors, text, file.lines)
            ELSE
            LET fixed == fix_srt_subtitles(parse(text).subs)
                wr    == WriteSrt(file.lines, fixed.subs, w)
            IN  IF fixed.fixes = <<>>
                THEN Processed(validation_errors, <<>>, text, file.lines, 1,
                               TRUE, TRUE, FALSE, FALSE, FALSE)
                ELSE Processed(IF wr.write_error # None
                               THEN Append(validation_errors,
                                           wr.write_error[1])
                               ELSE validation_errors,
                               fixed.fixes, text, wr.lines, 1,
                               TRUE, TRUE, TRUE, wr.write_error = None,
                               FALSE)

\* no run of validate_srt.py is under way
RunIdle ==
    /\ disk = <<>>
    /\ input_path = "missing"
    /\ fix = FALSE
    /\ pc = "idle"
    /\ todo = <<>>
    /\ log = <<>>
    /\ all_errors = <<>>
    /\ files_processed = 0
    /\ files_with_errors = 0
    /\ files_fixed = 0
    /\ exit_code = <<>>

(***************************************************************************)
(* The Fixer as a state machine: a caller hands a record sequence to       *)
(* fix_srt_subtitles, may hand the returned sequence to it again, and may  *)
(* write the latest result with write_srt.                                 *)
(***************************************************************************)
\* record contents tried: clean text, and text needing every normalisation
FixContents ==
    { <<"a">>, <<" ", "a", "\r", "\n", "\n", "\n", "b">> }

\* ends reach two past the starts, so that a record whose start is pushed
\* behind its predecessor can still keep its end
FixRecords ==
    [index : 1..MaxSubs, start : 0..MaxTime, end : 0..(MaxTime + 2),
     content : FixContents]

NoArgs == [max_chars_per_line |-> 0, max_lines_per_sub |-> 0,
           min_duration_ms |-> 0, max_duration_ms |-> 0]

NoOutcome == [called |-> FALSE, raised |-> FALSE, parsed |-> FALSE,
              errors |-> <<>>]

ValidatorIdle == content = <<>> /\ args = NoArgs /\ outcome = NoOutcome

InitFix ==
    /\ \E n \in 0..MaxSubs : subtitles \in [1..n -> FixRecords]
    /\ fixed_subs = <<>>
    /\ fixes_applied = <<>>
    /\ fix_calls = 0
    /\ written = <<>>
    /\ ValidatorIdle
    /\ RunIdle

\* fixed_subs, fixes = fix_srt_subtitles(subtitles)
Fix ==
    /\ fix_calls = 0
    /\ fixed_subs' = fix_srt_subtitles(subtitles).subs
    /\ fixes_applied' = fix_srt_subtitles(subtitles).fixes
    /\ fix_calls' = 1
    /\ UNCHANGED <<subtitles, written, content, args, outcome, run_vars>>

\* the Fixer applied to the sequence the previous call returned
FixAgain ==
    /\ fix_calls >= 1
    /\ fix_calls < MaxFixCalls
    /\ subtitles' = fixed_subs
    /\ fixed_subs' = fix_srt_subtitles(fixed_subs).subs
    /\ fixes_applied' = fix_srt_subtitles(fixed_subs).fixes
    /\ fix_calls' = fix_calls + 1
    /\ UNCHANGED <<written, content, args, outcome, run_vars>>

\* write_srt(file_path, fixed_subs): srt.compose(subtitles, reindex=False)
write_srt ==
    /\ fix_calls >= 1
    /\ written = <<>>
    /\ written' = compose(fixed_subs)
    /\ UNCHANGED <<subtitles, fixed_subs, fixes_applied, fix_calls,
                   content, args, outcome, run_vars>>

NextFix == Fix \/ FixAgain \/ write_srt

SpecFix == InitFix /\ [][NextFix]_vars

(***************************************************************************)
(* Claims about the Fixer (checked under SpecFix).                         *)
(***************************************************************************)
IndexColumn(subs) == [i \in 1..Len(subs) |-> subs[i].index]

OneToN(n) == [i \in 1..n |-> i]

\* C1: for every input sequence of length N the sequence returned by
\* fix_srt_subtitles has indices 1, 2, ..., N in sequence order, and the
\* text written by write_srt (compose without reindexing) carries the same
\* indices 1..N on its index lines.
C1_IndicesOneToN ==
    /\ fix_calls >= 1 =>
          /\ Len(fixed_subs) = Len(subtitles)
          /\ IndexColumn(fixed_subs) = OneToN(Len(subtitles))
    /\ written # <<>> =>
          /\ parse(written).ok
          /\ IndexColumn(parse(written).subs) = OneToN(Len(fixed_subs))

\* records with duplicate indices, none in its place, were fixed and written
C1_Witness ==
    /\ fix_calls = 1
    /\ written # <<>>
    /\ IndexColumn(subtitles) = <<2, 2>>

\* C2: after fix_srt_subtitles every record has start < end with a duration
\* of at least 1 ms, and adjacent records satisfy end[i] <= start[i+1].
C2_Monotonic ==
    fix_calls >= 1 =>
        /\ \A i \in 1..Len(fixed_subs) :
              /\ fixed_subs[i].start < fixed_subs[i].end
              /\ fixed_subs[i].end - fixed_subs[i].start >= 1
        /\ \A i \in 1..(Len(fixed_subs) - 1) :
              fixed_subs[i].end <= fixed_subs[i + 1].start

\* a record of negative duration was fixed, and the record after it, which
\* did not overlap it as given, overlapped its repaired end and was pushed
C2_Witness ==
    /\ fix_calls = 1
    /\ Len(subtitles) = MaxSubs
    /\ \E i \in 1..(MaxSubs - 1) :
          /\ subtitles[i].start > subtitles[i].end
          /\ subtitles[i + 1].start >= subtitles[i].end
          /\ subtitles[i + 1].start < fixed_subs[i].end
          /\ subtitles[i + 1].end <= subtitles[i + 1].start

\* C3: the Fixer applied to a sequence a previous call returned reports no
\* fix category and changes no index, start, end or text.
C3_Idempotent ==
    fix_calls >= 2 => fixes_applied = <<>> /\ fixed_subs = subtitles

\* the second call ran on a sequence whose timing and text the first call
\* had changed (a start beyond every input time, a collapsed line break)
C3_Witness ==
    /\ fix_calls = 2
    /\ Len(subtitles) = 2
    /\ subtitles[2].start > MaxTime
    /\ subtitles[1].content = <<"a", "\n", "\n", "b">>

\* C4: with previous_end the fixed end of the preceding record (0 for the
\* first), the fixed start is previous_end + 1 when the original start is
\* below previous_end and the original start otherwise; the fixed end is
\* fixed start + 1 when the original end is <= the fixed start and the
\* original end otherwise; no start or end moves earlier.
C4_TimingRepair ==
    fix_calls = 1 =>
        \A i \in 1..Len(subtitles) :
            LET previous_end == IF i = 1 THEN 0 ELSE fixed_subs[i - 1].end
                old == subtitles[i]
                new == fixed_subs[i]
            IN  /\ new.start = IF old.start < previous_end
                               THEN previous_end + 1 ELSE old.start
                /\ new.end = IF old.end <= new.start
                             THEN new.start + 1 ELSE old.end
                /\ new.start >= old.start
                /\ new.end >= old.end

\* the first record kept its start and had its end moved; the second had
\* its start moved behind that repaired end and kept its end
C4_Witness ==
    /\ fix_calls = 1
    /\ Len(subtitles) = 2
    /\ fixed_subs[1].start = subtitles[1].start
    /\ fixed_subs[1].end > subtitles[1].end
    /\ fixed_subs[2].start > subtitles[2].start
    /\ fixed_subs[2].end = subtitles[2].end

(***************************************************************************)
(* Validation as a state machine: a text and four thresholds are handed    *)
(* to validate_srt_content once.  The texts are short free-form files      *)
(* (for the pre-scan and its halting policy), well-formed files written    *)
(* from one or two records (for the rule engine's carry-over state) and    *)
(* files of one block with each kind of content (for the content checks).  *)
(***************************************************************************)
MaxScanLines == 5   \* longest free-form text, in lines
MaxRuleSubs == 2    \* most records of a well-formed text

ScanLines ==
    { TextLine(<<"1">>), TextLine(<<"2">>), TextLine(<<>>), TextLine(<<" ">>),
      TextLine(<<"a">>), TimecodeLine(TRUE, 0, 1), TimecodeLine(FALSE, 0, 1) }

\* a two-character line, and a tagged line of three characters
RuleContents ==
    { <<"a", "b">>,
      <<"<", "i", ">", "a", "b", "c", "<", "/", "i", ">">> }

RuleRecords ==
    [index : 1..MaxRuleSubs, start : 0..MaxTime, end : 0..(MaxTime + 1),
     content : RuleContents]

\* contents of the one-record texts: one for every outcome of the content
\* and tag checks under the thresholds of ValidateArgs
ContentCases ==
    { <<"<", "i", ">", "a", "b", "<", "/", "i", ">">>,
      <<"<", "I", ">", "a", "<", "/", "i", ">">>,
      <<"<", "f", "o", "n", "t", " ", "x", ">", "a",
        "<", "/", "f", "o", "n", "t", ">">>,
      <<" ", "a", "b", " ">>,
      <<"a", "\n", "b">>,
      <<"a", "\n", "a", "b", "c">>,
      <<"a", "\n", "b", "\n", "c">>,
      <<" ">>,
      <<"<", "i", ">", "a">>,
      <<"<", "b", ">", "a", "<", "/", "u", ">">> }

ContentRecords ==
    [index : 1..MaxRuleSubs, start : 0..MaxTime, end : 0..(MaxTime + 1),
     content : ContentCases]

\* thresholds: 2 characters per line, 2 lines, 0 or 1 ms at least, 1 ms at most
ValidateArgs ==
    [max_chars_per_line : {2}, max_lines_per_sub : {2},
     min_duration_ms : {0, 1}, max_duration_ms : {1}]

FixerIdle ==
    /\ subtitles = <<>>
    /\ fixed_subs = <<>>
    /\ fixes_applied = <<>>
    /\ fix_calls = 0
    /\ written = <<>>

InitValidate ==
    /\ \/ \E n \in 0..MaxScanLines : content \in [1..n -> ScanLines]
       \/ \E n \in 1..MaxRuleSubs :
             \E subs \in [1..n -> RuleRecords] : content = compose(subs)
       \/ \E sub \in ContentRecords : content = to_srt(sub)
    /\ args \in ValidateArgs
    /\ outcome = NoOutcome
    /\ FixerIdle
    /\ RunIdle

\* errors = validate_srt_content(file_path, content, ...)
Validate ==
    /\ ~outcome.called
    /\ outcome' = validate_srt_content(content, args)
    /\ UNCHANGED <<subtitles, fixed_subs, fixes_applied, fix_calls, written,
                   content, args, run_vars>>

NextValidate == Validate

SpecValidate == InitValidate /\ [][NextValidate]_vars

(***************************************************************************)
(* Claims about validate_srt_content (checked under SpecValidate).         *)
(***************************************************************************)
\* the text consists of whitespace only (or of nothing)
AllWhitespace(lines) ==
    \A k \in 1..Len(lines) :
        \A j \in 1..Len(lines[k].chars) : lines[k].chars[j] \in Whitespace

\* line n fails the strict grammar and is the timecode line of a block:
\* an arrow line after index line m, with neither an arrow line nor a blank
\* line in between
OffendingTimecodeLine(lines, m, n) ==
    /\ 1 <= m /\ m < n /\ n <= Len(lines)
    /\ IsIndexLine(lines[m])
    /\ lines[n].arrow /\ ~lines[n].ok
    /\ \A h \in (m + 1)..(n - 1) :
          ~lines[h].arrow /\ ~IsBlankLine(lines[h])

\* C5: whenever the pre-scan finds a timecode line that fails the strict
\* grammar, validate_srt_content returns only Timecode Format Error
\* diagnostics, each with the candidate block index and the 1-based line
\* number of the offending line, and neither the record parser nor the rule
\* engine is run.
C5_HaltOnTimecodeFormatError ==
    (outcome.called /\ PreScan(content).errors # <<>>) =>
        /\ ~outcome.raised
        /\ ~outcome.parsed
        /\ outcome.errors # <<>>
        /\ \A k \in 1..Len(outcome.errors) :
              LET e == outcome.errors[k]
              IN  /\ e.error_type = "Timecode Format Error"
                  /\ e.line_number # None
                  /\ e.subtitle_index # None
                  /\ \E m \in 1..Len(content) :
                        /\ OffendingTimecodeLine(content, m, e.line_number[1])
                        /\ e.subtitle_index[1]
                               = ParseInt(StrippedChars(content[m]))

\* two blocks with a malformed timecode line each were validated
C5_Witness ==
    /\ outcome.called
    /\ Len(outcome.errors) = 2
    /\ outcome.errors[1].error_type = "Timecode Format Error"
    /\ outcome.errors[1].subtitle_index = Some(1)
    /\ outcome.errors[1].line_number = Some(2)
    /\ outcome.errors[2].subtitle_index = Some(2)
    /\ outcome.errors[2].line_number = Some(5)

\* C6: for every input whose trimmed text is empty validate_srt_content
\* returns exactly one diagnostic, a Content Error without record index.
C6_EmptyFile ==
    (outcome.called /\ AllWhitespace(content)) =>
        /\ ~outcome.raised
        /\ ~outcome.parsed
        /\ Len(outcome.errors) = 1
        /\ outcome.errors[1].error_type = "Content Error"
        /\ outcome.errors[1].subtitle_index = None

\* a text of several whitespace-only lines was validated
C6_Witness ==
    /\ outcome.called
    /\ Len(content) = 3
    /\ AllWhitespace(content)
    /\ content[2] = TextLine(<<" ">>)

\* C7: for every input whose trimmed text is non-empty and in which no
\* block was opened (no bare-integer line), validate_srt_content returns
\* exactly one Parsing Error and halts before the record parser.
C7_NoBlocks ==
    (/\ outcome.called
     /\ ~AllWhitespace(content)
     /\ \A k \in 1..Len(content) : ~IsIndexLine(content[k])) =>
        /\ ~outcome.raised
        /\ ~outcome.parsed
        /\ Len(outcome.errors) = 1
        /\ outcome.errors[1].error_type = "Parsing Error"

\* a text with a well-formed timecode line and content but no index line
C7_Witness ==
    /\ outcome.called
    /\ content = <<TimecodeLine(TRUE, 0, 1), TextLine(<<"a">>)>>

\* the records the parser hands to the rule engine
ParsedSubs == parse(content).subs

\* number of diagnostics with this message wording and record index
CountErrors(errors, id, index) ==
    Cardinality({ k \in 1..Len(errors) :
                    /\ errors[k].message.id = id
                    /\ errors[k].subtitle_index = Some(index) })

\* the text holds exactly one record, which breaks no rule except that its
\* single content line is longer than the threshold after tag stripping
OneRecordWithLongLine ==
    /\ parse(content).ok
    /\ Len(ParsedSubs) = 1
    /\ LET sub == ParsedSubs[1]
           lines == SplitNL(Strip(sub.content))
       IN  /\ sub.index = 1
           /\ sub.start < sub.end
           /\ sub.end - sub.start >= args.min_duration_ms
           /\ sub.end - sub.start <= args.max_duration_ms
           /\ Len(lines) = 1
           /\ Len(StripTags(lines[1])) > args.max_chars_per_line
           /\ \A t \in 1..Len(common_tags) : ~TagMismatch(sub.content, t)

\* C8: for an otherwise valid record whose single content line, after
\* stripping tags, is longer than the threshold, validate_srt_content
\* returns without raising exactly one diagnostic: a Format Error of
\* severity warning whose message holds the measured length and the
\* threshold.
C8_LongLineWarning ==
    (outcome.called /\ OneRecordWithLongLine) =>
        /\ ~outcome.raised
        /\ Len(outcome.errors) = 1
        /\ outcome.errors[1].error_type = "Format Error"
        /\ outcome.errors[1].severity = "warning"
        /\ outcome.errors[1].message.a
               = Len(StripTags(Strip(ParsedSubs[1].content)))
        /\ outcome.errors[1].message.b = args.max_chars_per_line

\* C9: the line number of a line-length diagnostic is the record's mapped
\* start line + the 0-based offset of the content line + 2, and is absent
\* when the record's index has no line-map entry.
C9_LongLineNumber ==
    (outcome.called /\ parse(content).ok) =>
        \A k \in 1..Len(ParsedSubs) :
            LET sub   == ParsedSubs[k]
                lines == SplitNL(Strip(sub.content))
                map   == subtitle_line_map(content)
            IN  \A i \in 0..(Len(lines) - 1) :
                    (/\ Strip(sub.content) # <<>>
                     /\ Len(StripTags(lines[i + 1]))
                            > args.max_chars_per_line) =>
                        /\ ~outcome.raised
                        /\ \E j \in 1..Len(outcome.errors) :
                              /\ outcome.errors[j].message.id = "line_too_long"
                              /\ outcome.errors[j].subtitle_index
                                     = Some(sub.index)
                              /\ outcome.errors[j].line_number
                                     = IF sub.index \in DOMAIN map
                                       THEN Some(map[sub.index] + i + 2)
                                       ELSE None

\* what C10 says of the diagnostics of the records with start >= end
OrderingAndDurationErrors ==
    \A k \in 1..Len(ParsedSubs) :
        LET sub == ParsedSubs[k]
            SameIndex(P(_)) ==
                Cardinality({ h \in 1..Len(ParsedSubs) :
                                /\ ParsedSubs[h].index = sub.index
                                /\ P(ParsedSubs[h]) })
            NotBefore(r) == r.start >= r.end
            TooShort(r) == r.end - r.start < args.min_duration_ms
        IN  sub.start >= sub.end =>
                /\ CountErrors(outcome.errors, "start_not_before_end",
                               sub.index) = SameIndex(NotBefore)
                /\ CountErrors(outcome.errors, "less_than_minimum",
                               sub.index) = SameIndex(TooShort)

\* C10: for every record with start >= end the rule engine emits an
\* ordering Timecode Error and, exactly when end - start is below the
\* minimum threshold, a Duration Error, both with the record's found index.
C10_OrderingAndDuration ==
    (outcome.called /\ parse(content).ok) => OrderingAndDurationErrors

\* C10 restricted to the calls that return: the ordering and duration
\* diagnostics are as claimed whenever validate_srt_content does not raise.
OrderingAndDurationWhenReturned ==
    (outcome.called /\ parse(content).ok /\ ~outcome.raised) =>
        OrderingAndDurationErrors

\* a returned call on a record with start = end under a positive minimum
OrderingAndDurationReached ==
    /\ outcome.called /\ ~outcome.raised
    /\ args.min_duration_ms = 1
    /\ Len(ParsedSubs) = 2
    /\ ParsedSubs[2].start = ParsedSubs[2].end
    /\ CountErrors(outcome.errors, "less_than_minimum", ParsedSubs[2].index) = 1

\* validate_srt_content was called, did not halt before the parser, and the
\* parser returned records: the rule engine was entered
RuleEngineEntered == outcome.called /\ outcome.parsed /\ parse(content).ok

\* the Index Errors whose message names k as the expected index
IndexErrorsExpecting(k) ==
    { j \in 1..Len(outcome.errors) :
        /\ outcome.errors[j].message.id = "expected_index"
        /\ outcome.errors[j].message.a = k }

\* what C11 says of the diagnostics of the record at every position k
IndexContinuityErrors ==
    \A k \in 1..Len(ParsedSubs) :
        LET sub == ParsedSubs[k]
        IN  /\ (IndexErrorsExpecting(k) # {}) <=> (sub.index # k)
            /\ \A j \in IndexErrorsExpecting(k) :
                  /\ outcome.errors[j].error_type = "Index Error"
                  /\ outcome.errors[j].message.b = sub.index
                  /\ outcome.errors[j].subtitle_index = Some(sub.index)
                  /\ outcome.errors[j].line_number
                         = MapGet(subtitle_line_map(content), sub.index)

\* C11: the expected index of the k-th record is k whatever the earlier
\* records carried; an Index Error is emitted for the k-th record iff its
\* index differs from k, its message states k and the found index, and its
\* record index and line-map lookup use the found index.
C11_IndexContinuity ==
    RuleEngineEntered => IndexContinuityErrors

\* C11 restricted to the calls that return
IndexContinuityWhenReturned ==
    (RuleEngineEntered /\ ~outcome.raised) =>
        IndexContinuityErrors

\* a returned call on two records numbered 2, 2: only the first is reported,
\* the expected index went on to 2 after the mismatch
IndexContinuityReached ==
    /\ outcome.called /\ ~outcome.raised
    /\ IndexColumn(ParsedSubs) = <<2, 2>>
    /\ IndexErrorsExpecting(1) # {}
    /\ IndexErrorsExpecting(2) = {}

\* the end, as parsed, of the record before position h (0 before the first)
PreviousEnd(h) == IF h = 1 THEN 0 ELSE ParsedSubs[h - 1].end

\* what C12 says: the overlap Timecode Errors carrying an index are those of
\* the positions with that index whose start lies below the preceding end
OverlapErrors ==
    \A k \in 1..Len(ParsedSubs) :
        LET sub == ParsedSubs[k]
            Overlapping ==
                { h \in 1..Len(ParsedSubs) :
                    /\ ParsedSubs[h].index = sub.index
                    /\ ParsedSubs[h].start < PreviousEnd(h) }
        IN  /\ CountErrors(outcome.errors, "overlaps_previous", sub.index)
                   = Cardinality(Overlapping)
            /\ sub.start < PreviousEnd(k) =>
                  \E j \in 1..Len(outcome.errors) :
                      /\ outcome.errors[j].error_type = "Timecode Error"
                      /\ outcome.errors[j].message
                             = Message("overlaps_previous", PreviousEnd(k),
                                       sub.start)
                      /\ outcome.errors[j].subtitle_index = Some(sub.index)

\* C12: the overlap check of the record at position k compares its start
\* with the end, as parsed, of the record at position k-1 (0 for the first)
\* and with nothing else; an overlap Timecode Error is emitted iff
\* start[k] < end[k-1], also after a record that had errors.
C12_OverlapAgainstPrevious ==
    RuleEngineEntered => OverlapErrors

\* C12 restricted to the calls that return
OverlapWhenReturned ==
    (RuleEngineEntered /\ ~outcome.raised) => OverlapErrors

\* a returned call where the second record starts exactly at the end of the
\* first, which itself had an ordering error, and no overlap is reported
OverlapReached ==
    /\ outcome.called /\ ~outcome.raised
    /\ Len(ParsedSubs) = 2
    /\ ParsedSubs[1].start > ParsedSubs[1].end
    /\ ParsedSubs[2].start = ParsedSubs[1].end
    /\ ParsedSubs[2].start < ParsedSubs[1].start
    /\ \A j \in 1..Len(outcome.errors) :
          outcome.errors[j].message.id # "overlaps_previous"

\* occurrences of pat in s, by position
Occurrences(s, pat) ==
    Cardinality({ q \in 1..(Len(s) - Len(pat) + 1) :
                    SubSeq(s, q, q + Len(pat) - 1) = pat })

\* as many opening forms (<tag> or <tag ...) as closing forms of every tag
TagsBalanced(text) ==
    \A t \in 1..Len(common_tags) :
        Occurrences(Lower(text), <<"<">> \o common_tags[t] \o <<">">>)
        + Occurrences(Lower(text), <<"<">> \o common_tags[t] \o <<" ">>)
        = Occurrences(Lower(text), <<"<", "/">> \o common_tags[t] \o <<">">>)

\* the record sequence subs satisfies every rule under the thresholds a
RulesSatisfied(subs, a) ==
    /\ subs # <<>>
    /\ \A k \in 1..Len(subs) :
          LET sub   == subs[k]
              lines == SplitNL(Strip(sub.content))
          IN  /\ sub.index = k
              /\ sub.start < sub.end
              /\ sub.start >= (IF k = 1 THEN 0 ELSE subs[k - 1].end)
              /\ sub.end - sub.start >= a.min_duration_ms
              /\ sub.end - sub.start <= a.max_duration_ms
              /\ Strip(sub.content) # <<>>
              /\ Len(lines) <= a.max_lines_per_sub
              /\ \A i \in 1..Len(lines) :
                    Len(StripTags(lines[i])) <= a.max_chars_per_line
              /\ TagsBalanced(sub.content)

\* the parsed record sequence satisfies every rule
AllRulesSatisfied ==
    LET parsed == parse(content)
    IN  parsed.ok /\ RulesSatisfied(parsed.subs, args)

ValidTaggedReached ==
    /\ outcome.called
    /\ AllRulesSatisfied
    /\ ParsedSubs[1].content = <<"<", "i", ">", "a", "b", "<", "/", "i", ">">>

(***************************************************************************)
(* A run of validate_srt.py as a state machine: main hands the input path  *)
(* to process_path, which processes the one file, or every ".srt" file of  *)
(* the directory in the order os.walk yields them, and main exits with a   *)
(* status.  Files are named by their position in disk, so the order of     *)
(* the names is the order of the positions.                                *)
(***************************************************************************)
MaxFiles == 2       \* most files in the input directory

\* thresholds of the runs: 2 characters, 2 lines, 1 ms to 2 ms
RunArgs == [max_chars_per_line |-> 2, max_lines_per_sub |-> 2,
            min_duration_ms |-> 1, max_duration_ms |-> 2]

\* timings of the records of the file given as the input path
FileTimings == [start : 0..MaxTime, end : 0..(MaxTime + 2)]

\* records with these timings, numbered from first on
Numbered(timings, first) ==
    [k \in 1..Len(timings) |->
        [index |-> first + k - 1, start |-> timings[k].start,
         end |-> timings[k].end, content |-> <<"a">>]]

\* texts no record sequence is written as: no block at all; a timecode
\* line neither the strict grammar nor the library accepts; one only the
\* library accepts, under a wrong index; text before the first block;
\* an over-long line; untrimmed content under a wrong index
SpecialTexts ==
    { <<TextLine(<<"a">>)>>,
      <<TextLine(<<"1">>), TimecodeLine(FALSE, 0, 1), TextLine(<<"a">>)>>,
      <<TextLine(<<"2">>), LooseTimecodeLine(0, 1), TextLine(<<"a">>)>>,
      <<TextLine(<<"a">>), TextLine(<<"1">>), TimecodeLine(TRUE, 0, 1),
        TextLine(<<"a">>)>>,
      <<TextLine(<<"1">>), TimecodeLine(TRUE, 0, 1),
        TextLine(<<"a", "b", "c">>)>>,
      <<TextLine(<<"2">>), TimecodeLine(TRUE, 0, 1),
        TextLine(<<" ", "a">>)>> }

\* texts of the files of a directory: a valid file, a file with one
\* overlap, and the special texts
DirTexts ==
    { compose(<<[index |-> 1, start |-> 0, end |-> 1, content |-> <<"a">>]>>),
      compose(<<[index |-> 1, start |-> 0, end |-> 1, content |-> <<"a">>],
                [index |-> 2, start |-> 0, end |-> 2, content |-> <<"a">>]>>) }
    \cup SpecialTexts

SrtFile(lines) == [srt |-> TRUE, readable |-> TRUE, lines |-> lines]

\* a file open() or read() fails on: its lines are there but cannot be read
UnreadableFile ==
    [srt |-> TRUE, readable |-> FALSE,
     lines |-> <<TextLine(<<"1">>), TimecodeLine(TRUE, 0, 1),
                 TextLine(<<"a">>)>>]

OtherFile == [srt |-> FALSE, readable |-> TRUE, lines |-> <<TextLine(<<"a">>)>>]

DirFiles == { SrtFile(t) : t \in DirTexts } \cup {UnreadableFile, OtherFile}

\* the orders in which os.walk may yield the files of the set S
Orders(S) ==
    { q \in [1..Cardinality(S) -> S] :
        \A i, j \in 1..Cardinality(S) : i # j => q[i] # q[j] }

InitRun ==
    /\ FixerIdle
    /\ content = <<>>
    /\ outcome = NoOutcome
    /\ args = RunArgs
    /\ fix \in BOOLEAN
    /\ \/ /\ input_path = "file"
          /\ \/ \E n \in 0..MaxSubs, first \in 1..2 :
                  \E timings \in [1..n -> FileTimings] :
                      disk = <<SrtFile(compose(Numbered(timings, first)))>>
             \/ \E t \in SpecialTexts : disk = <<SrtFile(t)>>
             \/ disk \in {<<UnreadableFile>>, <<OtherFile>>}
       \/ /\ input_path = "dir"
          /\ \E n \in 0..MaxFiles : disk \in [1..n -> DirFiles]
       \/ /\ input_path = "missing"
          /\ disk = <<>>
    /\ pc = "main"
    /\ todo = <<>>
    /\ log = [f \in DOMAIN disk |-> None]
    /\ all_errors = <<>>
    /\ files_processed = 0
    /\ files_with_errors = 0
    /\ files_fixed = 0
    /\ exit_code = None

\* "fixes = [] # Dummy value": the single-file branch drops the fix list
SingleFileFixes(fixes) == <<>>

\* main's choice of the exit status
ExitStatus(errors, fix_requested) ==
    IF errors # <<>> /\ ~fix_requested THEN 1 ELSE 0

\* process_path, single-file branch
ProcessSingleFile ==
    /\ pc = "main"
    /\ input_path = "file"
    /\ disk[1].srt
    /\ \E w \in WriteOutcomes :
          \E r \in {process_srt_file(disk[1], args, fix, w)} :
              /\ disk' = [disk EXCEPT ![1].lines = r.lines]
              /\ log' = [log EXCEPT ![1] = Some(r)]
              /\ files_processed' = 1
              /\ files_with_errors' =
                     IF r.errors # <<>> THEN files_with_errors + 1
                     ELSE files_with_errors
              /\ all_errors' = all_errors \o r.errors
              /\ files_fixed' =
                     IF SingleFileFixes(r.fixes) # <<>> THEN files_fixed + 1
                     ELSE files_fixed
    /\ pc' = "summary"
    /\ UNCHANGED <<unit_vars, args, input_path, fix, todo, exit_code>>

\* process_path, a file that does not end in ".srt"
SkipNonSrt ==
    /\ pc = "main"
    /\ input_path = "file"
    /\ ~disk[1].srt
    /\ pc' = "summary"
    /\ UNCHANGED <<unit_vars, args, disk, input_path, fix, todo, log,
                   all_errors, files_processed, files_with_errors,
                   files_fixed, exit_code>>

\* process_path, the path is neither a file nor a directory
PathNotFound ==
    /\ pc = "main"
    /\ input_path = "missing"
    /\ all_errors' = Append(all_errors,
           ValidationError(None, None, "Path Error",
                           Message("invalid_path", 0, 0)))
    /\ pc' = "summary"
    /\ UNCHANGED <<unit_vars, args, disk, input_path, fix, todo, log,
                   files_processed, files_with_errors, files_fixed, exit_code>>

\* process_path, directory branch: os.walk lists the files
WalkDirectory ==
    /\ pc = "main"
    /\ input_path = "dir"
    /\ todo' \in Orders({ f \in DOMAIN disk : disk[f].srt })
    /\ pc' = "walk"
    /\ UNCHANGED <<unit_vars, args, disk, input_path, fix, log, all_errors,
                   files_processed, files_with_errors, files_fixed, exit_code>>

\* process_path, directory branch: one iteration of the loop
ProcessDirectoryFile ==
    /\ pc = "walk"
    /\ todo # <<>>
    /\ \E w \in WriteOutcomes :
          \E r \in {process_srt_file(disk[Head(todo)], args, fix, w)} :
              /\ disk' = [disk EXCEPT ![Head(todo)].lines = r.lines]
              /\ log' = [log EXCEPT ![Head(todo)] = Some(r)]
              /\ files_processed' = files_processed + 1
              /\ files_with_errors' =
                     IF r.errors # <<>> THEN files_with_errors + 1
                     ELSE files_with_errors
              /\ all_errors' = all_errors \o r.errors
              /\ files_fixed' =
                     IF r.fixes # <<>> THEN files_fixed + 1 ELSE files_fixed
    /\ todo' = Tail(todo)
    /\ UNCHANGED <<unit_vars, args, input_path, fix, pc, exit_code>>

\* main after process_path returned: sys.exit
Exit ==
    /\ \/ pc = "summary"
       \/ pc = "walk" /\ todo = <<>>
    /\ exit_code' = Some(ExitStatus(all_errors, fix))
    /\ pc' = "exited"
    /\ UNCHANGED <<unit_vars, args, disk, input_path, fix, todo, log,
                   all_errors, files_processed, files_with_errors,
                   files_fixed>>

NextRun ==
    \/ ProcessSingleFile
    \/ SkipNonSrt
    \/ PathNotFound
    \/ WalkDirectory
    \/ ProcessDirectoryFile
    \/ Exit

SpecRun == InitRun /\ [][NextRun]_vars

(***************************************************************************)
(* Claims about the per-file pipeline and the run (checked under SpecRun). *)
(***************************************************************************)
\* the files process_srt_file has been called on
ProcessedFiles == { f \in DOMAIN log : log[f] # None }

\* what process_srt_file did with the file f
Done(f) == log[f][1]

\* the diagnostics of the validation of the text read from f
PreFixDiagnostics(f) == script_validate_srt_content(Done(f).text, args)

\* parsing and format failures that make the parsed records untrustworthy
IsBlocking(e) ==
    \/ e.error_type \in {"Timecode Format Error", "Parsing Error"}
    \/ e.error_type = "Content Error" /\ e.subtitle_index = None

HasBlocking(errors) == \E k \in 1..Len(errors) : IsBlocking(errors[k])

\* the fix stage was entered for f: re-parse, fix pass or rewrite
FixAttempted(f) ==
    Done(f).reparsed \/ Done(f).fixer_called \/ Done(f).write_attempted

\* C14: the Fixer (re-parse, fix, rewrite) is attempted only when fixing
\* was requested, validation found at least one diagnostic and none of the
\* diagnostics is a Timecode Format Error, a Parsing Error or a file-level
\* Content Error; otherwise the file is neither re-parsed nor rewritten.
C14_FixOnlyWhenNotBlocked ==
    \A f \in ProcessedFiles :
        FixAttempted(f) =>
            /\ fix
            /\ Done(f).validated = 1
            /\ PreFixDiagnostics(f) # <<>>
            /\ ~HasBlocking(PreFixDiagnostics(f))

\* what the code keeps of C14: no fix stage unless fixing was requested and
\* validation returned a diagnostic
FixOnlyWhenRequested ==
    \A f \in ProcessedFiles :
        FixAttempted(f) =>
            (fix /\ Done(f).validated = 1 /\ PreFixDiagnostics(f) # <<>>)

\* a file whose validation halted at a Timecode Format Error was re-parsed,
\* renumbered and rewritten
BlockedFileRewritten ==
    \E f \in ProcessedFiles :
        /\ HasBlocking(PreFixDiagnostics(f))
        /\ Done(f).rewritten
        /\ disk[f].lines # Done(f).text

\* the fix pass process_srt_file ran on the text read from f
FixPass(f) == fix_srt_subtitles(parse(Done(f).text).subs)

\* C15: after a successful fix-and-rewrite the freshly written text is
\* validated again (a second validation), the diagnostics returned are
\* exactly those of the pre-fix validation and the fix list returned is
\* the list of categories the fix pass applied.
C15_RevalidatesAfterRewrite ==
    \A f \in ProcessedFiles :
        Done(f).rewritten =>
            /\ Done(f).validated = 2
            /\ Done(f).errors = PreFixDiagnostics(f)
            /\ Done(f).fixes = FixPass(f).fixes

\* what the code keeps of C15: after a rewrite the diagnostics returned
\* are the pre-fix ones, the fix list is the one of the fix pass and the
\* file holds the composed fixed records, after one validation only
PreFixDiagnosticsReturned ==
    \A f \in ProcessedFiles :
        Done(f).rewritten =>
            /\ Done(f).validated = 1
            /\ Done(f).errors = PreFixDiagnostics(f)
            /\ Done(f).fixes = FixPass(f).fixes
            /\ Done(f).fixes # <<>>
            /\ disk[f].lines = compose(FixPass(f).subs)

\* a file was fixed and rewritten, and its new text differs from the old
RewrittenReached ==
    \E f \in ProcessedFiles :
        Done(f).rewritten /\ disk[f].lines # Done(f).text

\* the diagnostics of f before fixing are one overlap Timecode Error
OnlyOverlap(f) ==
    /\ Len(PreFixDiagnostics(f)) = 1
    /\ PreFixDiagnostics(f)[1].error_type = "Timecode Error"
    /\ PreFixDiagnostics(f)[1].message.id = "overlaps_previous"

\* the write of the fixed records to f was attempted and failed
WriteFailed(f) == Done(f).write_attempted /\ ~Done(f).rewritten

\* every record after the first that started before its predecessor's end
\* starts 1 ms after the end of its predecessor in the file as rewritten
OverlapsMoved(f) ==
    LET before == parse(Done(f).text).subs
        after  == parse(disk[f].lines)
    IN  /\ after.ok
        /\ Len(after.subs) = Len(before)
        /\ \A k \in 2..Len(before) :
               before[k].start < after.subs[k - 1].end =>
                   after.subs[k].start = after.subs[k - 1].end + 1

\* C16: with fixing enabled and the write succeeding, a file whose only
\* pre-fix diagnostic is an overlap Timecode Error is rewritten so that the
\* overlapping record starts 1 ms after the end of its predecessor, the
\* diagnostics returned are empty and the fix list contains Timecode Fix.
C16_OverlapFixedCleanly ==
    \A f \in ProcessedFiles :
        (fix /\ OnlyOverlap(f) /\ ~WriteFailed(f)) =>
            /\ Done(f).rewritten
            /\ OverlapsMoved(f)
            /\ Done(f).errors = <<>>
            /\ \E k \in 1..Len(Done(f).fixes) :
                   Done(f).fixes[k] = "Timecode Fix"

\* what the code keeps of C16: the file is rewritten with the overlapping
\* record moved and Timecode Fix is reported, but the overlap diagnostic is
\* still returned
OverlapFixedButReported ==
    \A f \in ProcessedFiles :
        (fix /\ OnlyOverlap(f) /\ ~WriteFailed(f)) =>
            /\ Done(f).rewritten
            /\ OverlapsMoved(f)
            /\ Done(f).errors = PreFixDiagnostics(f)
            /\ \E k \in 1..Len(Done(f).fixes) :
                   Done(f).fixes[k] = "Timecode Fix"

\* a file with the overlap as its only diagnostic was fixed and rewritten
OnlyOverlapFixed ==
    \E f \in ProcessedFiles :
        fix /\ OnlyOverlap(f) /\ Done(f).rewritten

\* the run is over
Exited == pc = "exited"

\* C17: a run exits with status 0 only when no diagnostic remains across
\* the processed files and for the input path, whether or not fixing was
\* requested.
C17_SuccessOnlyWithoutErrors ==
    (Exited /\ exit_code = Some(0)) => all_errors = <<>>

\* what the code keeps of C17: the status is 1 exactly when a diagnostic
\* was collected and fixing was not requested, so a run without fixing
\* exits with 0 only when nothing was collected
StatusAsChosenByMain ==
    Exited =>
        /\ exit_code = Some(IF all_errors # <<>> /\ ~fix THEN 1 ELSE 0)
        /\ (~fix /\ exit_code = Some(0)) => all_errors = <<>>

\* a run with fixing requested left a diagnostic no fix can remove (the
\* input path does not exist, or a file cannot be read) and exited with 0
SuccessDespiteErrors ==
    /\ Exited
    /\ fix
    /\ exit_code = Some(0)
    /\ \E k \in 1..Len(all_errors) :
           all_errors[k].error_type \in {"Path Error", "File Error"}

\* a run without fixing collected a diagnostic and exited with 1
FailureReached == Exited /\ ~fix /\ exit_code = Some(1)

\* the Fixing Error diagnostic of process_srt_file's handler
FixingError ==
    ValidationError(None, None, "Fixing Error", Message("fix_failed", 0, 0))

\* the .srt files under the input path
SrtFiles == { f \in DOMAIN disk : disk[f].srt }

RaisedBeforeOthers ==
    /\ pc = "walk"
    /\ todo # <<>>
    /\ \E f \in ProcessedFiles : Done(f).raised

\* the processed files whose fix list is not empty
FilesWithFixes == { f \in ProcessedFiles : Done(f).fixes # <<>> }

\* C19: a non-empty fix list means the file was modified: a file whose fix
\* list is not empty has been rewritten with the fixed records, a file
\* whose fix list is empty was not written, and at the end of the run the
\* files-fixed counter is the number of files with a non-empty fix list,
\* for a single file and for a directory.
C19_FixesMeanModified ==
    /\ \A f \in ProcessedFiles :
           /\ Done(f).fixes # <<>> =>
                  /\ Done(f).rewritten
                  /\ disk[f].lines = compose(FixPass(f).subs)
           /\ Done(f).fixes = <<>> =>
                  /\ ~Done(f).write_attempted
                  /\ Done(f).validated = 1 => disk[f].lines = Done(f).text
    /\ Exited => files_fixed = Cardinality(FilesWithFixes)

\* what the code keeps of C19: a file with an empty fix list is never
\* written, a file with a non-empty fix list is one whose write was
\* attempted, and the directory branch counts the files with a non-empty
\* fix list
FixesMeanWriteAttempted ==
    /\ \A f \in ProcessedFiles :
           /\ Done(f).fixes # <<>> <=> Done(f).write_attempted
           /\ Done(f).rewritten =>
                  disk[f].lines = compose(FixPass(f).subs)
           /\ (Done(f).validated = 1 /\ ~Done(f).write_attempted) =>
                  disk[f].lines = Done(f).text
    /\ (Exited /\ input_path = "dir") =>
           files_fixed = Cardinality(FilesWithFixes)

\* a single file was fixed and rewritten and the run ended with the
\* files-fixed counter at 0
SingleFileFixNotCounted ==
    /\ Exited
    /\ input_path = "file"
    /\ 1 \in ProcessedFiles
    /\ Done(1).rewritten
    /\ Done(1).fixes # <<>>
    /\ files_fixed = 0

\* a fix list was returned for a file whose write failed
FixesWithoutRewrite ==
    \E f \in ProcessedFiles :
        /\ Done(f).fixes # <<>>
        /\ ~Done(f).rewritten
        /\ disk[f].lines # compose(FixPass(f).subs)

\* C20: a failed read gives no content and exactly one File Error, a
\* successful one gives the content and no diagnostic (never both, never
\* neither); for a file that cannot be read process_srt_file returns exactly
\* that File Error and an empty fix list, runs neither the validation nor
\* the fix stage, and the file is left as it was.
C20_ReadFailureHaltsFile ==
    /\ \A file \in DirFiles :
           LET rd == read_srt_content(file)
           IN  /\ (rd.content = None) # (rd.read_error = None)
               /\ file.readable <=> rd.content = Some(file.lines)
               /\ ~file.readable <=>
                      rd.read_error = Some(FileError("read_failed"))
    /\ \A f \in ProcessedFiles :
           IF disk[f].readable
           THEN Done(f).validated = 1
           ELSE /\ Done(f).errors = <<FileError("read_failed")>>
                /\ Done(f).fixes = <<>>
                /\ Done(f).validated = 0
                /\ ~FixAttempted(f)
                /\ disk[f] = UnreadableFile

\* a run with fixing requested is over in which a file could not be read
\* and a file that could be read was validated
C20_Witness ==
    /\ Exited
    /\ fix
    /\ \E f \in ProcessedFiles :
           /\ ~disk[f].readable
           /\ Len(Done(f).errors) = 1
           /\ \E g \in ProcessedFiles : disk[g].readable

\* the files still to be processed in the directory loop
Pending == { todo[k] : k \in 1..Len(todo) }

\* the diagnostics of the processed files among 1..f, in the order of the
\* names (a file's position on the disk is the rank of its name)
RECURSIVE ErrorsInNameOrder(_)
ErrorsInNameOrder(f) ==
    IF f = 0 THEN <<>>
    ELSE ErrorsInNameOrder(f - 1)
         \o (IF f \in ProcessedFiles THEN Done(f).errors ELSE <<>>)

\* the diagnostics of the first k files of the sequence q, concatenated
RECURSIVE ErrorsInOrder(_, _)
ErrorsInOrder(q, k) ==
    IF k = 0 THEN <<>>
    ELSE ErrorsInOrder(q, k - 1) \o Done(q[k]).errors

\* C21: the .srt files of a directory are processed one after another in
\* the order of their names: a file still to be processed never sorts
\* before a file already processed, and the diagnostics collected are the
\* per-file diagnostics concatenated in the order of the names.
C21_SortedNameOrder ==
    input_path = "dir" =>
        /\ \A f \in ProcessedFiles : \A g \in Pending : f < g
        /\ all_errors = ErrorsInNameOrder(Len(disk))

\* what the code keeps of C21: the files are processed one at a time, each
\* .srt file once, in the order os.walk lists them, and the counters and
\* the collected diagnostics account for the processed files only
ProcessedOneByOne ==
    (input_path = "dir" /\ pc # "main") =>
        /\ ProcessedFiles \cap Pending = {}
        /\ ProcessedFiles \cup Pending = SrtFiles
        /\ files_processed = Cardinality(ProcessedFiles)
        /\ files_with_errors
               = Cardinality({ f \in ProcessedFiles : Done(f).errors # <<>> })
        /\ \E q \in Orders(ProcessedFiles) :
               all_errors = ErrorsInOrder(q, Len(q))

\* a directory run is over whose second file by name was processed first,
\* so that its diagnostics come first
ProcessedOutOfNameOrder ==
    /\ Exited
    /\ input_path = "dir"
    /\ Cardinality(ProcessedFiles) = 2
    /\ all_errors # ErrorsInNameOrder(Len(disk))

(***************************************************************************)
(* Claims about the line map and the pre-scan (checked under SpecValidate).*)
(***************************************************************************)
\* the line at 1-based position n opened a block in the pre-scan: a bare
\* integer seen while no block was open
OpensBlock(lines, n) ==
    /\ n \in 1..Len(lines)
    /\ IsIndexLine(lines[n])
    /\ ~PreScan(SubSeq(lines, 1, n - 1)).in_subtitle_block

\* the line at position n is the index line of a block carrying index k:
\* it opened a block, reads k and directly precedes the timecode line
IsIndexLineOfBlock(lines, n, k) ==
    /\ OpensBlock(lines, n)
    /\ ParseInt(StrippedChars(lines[n])) = k
    /\ n + 1 <= Len(lines)
    /\ lines[n + 1].arrow

\* C22: every entry of the line map maps an index to the line number of the
\* index line of a block carrying that index (a bare-integer line that
\* opened a block and directly precedes the timecode line), so a content
\* line made of digits is never the mapped line of an index; and the index
\* of every parsed record, the last one included, has an entry.
C22_LineMapEntries ==
    RuleEngineEntered =>
        LET map == subtitle_line_map(content)
        IN  /\ \A k \in DOMAIN map : IsIndexLineOfBlock(content, map[k], k)
            /\ \A h \in 1..Len(ParsedSubs) : ParsedSubs[h].index \in DOMAIN map

\* what the code keeps of C22: every entry maps an index to the number of a
\* digit-only line that reads that index, and the index of every parsed
\* record has an entry
LineMapPointsAtDigitLines ==
    RuleEngineEntered =>
        LET map == subtitle_line_map(content)
        IN  /\ \A k \in DOMAIN map :
                  /\ map[k] \in 1..Len(content)
                  /\ IsIndexLine(content[map[k]])
                  /\ ParseInt(StrippedChars(content[map[k]])) = k
            /\ \A h \in 1..Len(ParsedSubs) : ParsedSubs[h].index \in DOMAIN map

\* the record numbered 2 on line 1 has the text "2" on line 3, the line map
\* holds line 3 for index 2 and the Index Error of the record names line 3
DigitContentLineMapped ==
    /\ RuleEngineEntered
    /\ content = <<TextLine(<<"2">>), TimecodeLine(TRUE, 0, 1),
                   TextLine(<<"2">>)>>
    /\ subtitle_line_map(content)[2] = 3
    /\ \E j \in 1..Len(outcome.errors) :
           /\ outcome.errors[j].error_type = "Index Error"
           /\ outcome.errors[j].line_number = Some(3)

\* the pre-scan on its own: texts of up to MaxScanLines lines
InitScan ==
    /\ \E n \in 0..MaxScanLines : content \in [1..n -> ScanLines]
    /\ args = RunArgs
    /\ outcome = NoOutcome
    /\ FixerIdle
    /\ RunIdle

SpecScan == InitScan /\ [][NextValidate]_vars

\* the three-state machine: one step on a line, from state s
ScannerStep(s, line) ==
    CASE s = "OutsideBlock" ->
           IF IsIndexLine(line) THEN "AwaitingTimecode" ELSE "OutsideBlock"
      [] s = "AwaitingTimecode" ->
           IF line.arrow THEN "InBlock"
           ELSE IF IsBlankLine(line) THEN "OutsideBlock"
           ELSE "AwaitingTimecode"
      [] OTHER ->
           IF IsBlankLine(line) THEN "OutsideBlock" ELSE "InBlock"

\* the state of the three-state machine after the first n lines
RECURSIVE ScannerState(_, _)
ScannerState(lines, n) ==
    IF n = 0 THEN "OutsideBlock"
    ELSE ScannerStep(ScannerState(lines, n - 1), lines[n])

\* the state the flags of the pre-scan stand for
FlagsState(st) ==
    IF ~st.in_subtitle_block THEN "OutsideBlock"
    ELSE IF ~st.have_timecode_line THEN "AwaitingTimecode"
    ELSE "InBlock"

\* line n is the timecode line of a block opened in OutsideBlock and fails
\* the grammar
IsOffendingLine(lines, n) ==
    \E m \in 1..(n - 1) :
        OpensBlock(lines, m) /\ OffendingTimecodeLine(lines, m, n)

\* one Timecode Format Error for every offending line among the first n
\* lines, in line order, with the index read from the line that opened the
\* block
RECURSIVE ExpectedFormatErrors(_, _)
ExpectedFormatErrors(lines, n) ==
    IF n = 0 THEN <<>>
    ELSE ExpectedFormatErrors(lines, n - 1)
         \o (IF IsOffendingLine(lines, n)
             THEN LET m == CHOOSE h \in 1..(n - 1) :
                               /\ OpensBlock(lines, h)
                               /\ OffendingTimecodeLine(lines, h, n)
                  IN  <<ValidationError(
                          Some(ParseInt(StrippedChars(lines[m]))), Some(n),
                          "Timecode Format Error",
                          Message("timecode_format", 0, 0))>>
             ELSE <<>>)

\* C23: the pre-scan moves as the three-state machine does (a block is
\* opened only by a bare integer in OutsideBlock, a blank line in a block
\* returns to OutsideBlock, a timecode line that fails the grammar still
\* moves to InBlock), and one pass emits exactly one Timecode Format Error
\* for each block whose timecode line fails the grammar, none for any other
\* line, in line order: k offending blocks yield k diagnostics.
C23_PreScanThreeStates ==
    outcome.called =>
        LET pre == PreScan(content)
        IN  /\ FlagsState(pre) = ScannerState(content, Len(content))
            /\ pre.errors = ExpectedFormatErrors(content, Len(content))
            /\ Len(pre.errors)
                   = Cardinality({ n \in 1..Len(content) :
                                     IsOffendingLine(content, n) })
            /\ pre.errors # <<>> => outcome.errors = pre.errors

\* a text of two blocks whose timecode lines both fail the grammar was
\* scanned: the first block ends at the blank line 3, and the diagnostics
\* are those of line 2 and of the last line
C23_Witness ==
    /\ outcome.called
    /\ Len(content) >= 5
    /\ Len(outcome.errors) = 2
    /\ outcome.errors[1].line_number = Some(2)
    /\ outcome.errors[2].line_number = Some(Len(content))
    /\ ScannerState(content, Len(content)) = "InBlock"
    /\ ScannerState(content, 3) = "OutsideBlock"

\* the text passed the pre-scan (it is not empty, a block was found and no
\* timecode line failed the grammar) and the record parser fails on it
ParserFailsAfterPreScan ==
    /\ outcome.called
    /\ ~IsEmptyText(content)
    /\ ~NoSubtitleBlocks(PreScan(content))
    /\ PreScan(content).errors = <<>>
    /\ ~parse(content).ok

\* the arrow lines whose timestamps the library cannot read back
UnreadableTimecodeLines(lines) ==
    { n \in 1..Len(lines) : lines[n].arrow /\ ~lines[n].parses }

\* the first such line, and line 1 when there is none
BestGuessLine(lines) ==
    IF UnreadableTimecodeLines(lines) = {} THEN 1
    ELSE CHOOSE n \in UnreadableTimecodeLines(lines) :
             \A h \in UnreadableTimecodeLines(lines) : n <= h

\* C24: when the record parser fails on a text that passed the pre-scan,
\* validate_srt_content does not raise and returns exactly one diagnostic,
\* a Parsing Error (no rule diagnostic, no record), whose line number is
\* that of the first timecode-shaped line whose timestamps cannot be read
\* back, and 1 when there is no such line.
C24_ParsingErrorBestGuess ==
    ParserFailsAfterPreScan =>
        /\ ~outcome.raised
        /\ Len(outcome.errors) = 1
        /\ outcome.errors[1].error_type = "Parsing Error"
        /\ outcome.errors[1].subtitle_index = None
        /\ outcome.errors[1].line_number = Some(BestGuessLine(content))

\* what the code keeps of C24: one Parsing Error and nothing else, always
\* attributed to line 1, from both copies of validate_srt_content
ParsingErrorOnLineOne ==
    ParserFailsAfterPreScan =>
        /\ ~outcome.raised
        /\ outcome.errors =
               <<ValidationError(None, Some(1), "Parsing Error",
                                 Message("parsing_failed", 0, 0))>>
        /\ script_validate_srt_content(content, args) = outcome.errors

\* the parser failed on a text whose line 2 is a timecode-shaped line that
\* cannot be read back, and the Parsing Error names line 1
GuessNotAttempted ==
    /\ ParserFailsAfterPreScan
    /\ BestGuessLine(content) = 2
    /\ outcome.errors[1].line_number = Some(1)

(***************************************************************************)
(* Claims about the order and the content of the rule diagnostics (checked *)
(* under SpecOrder: texts composed of records that break several rules).   *)
(***************************************************************************)
\* a text of three lines with two over-long lines and every tag unclosed,
\* a text of three short lines with two tags unclosed, and a blank text
OrderContents ==
    { <<"<", "f", "o", "n", "t", " ", "x", ">", "<", "u", ">", "<", "b", ">",
        "<", "i", ">", "a", "b", "c", "d", "\n", "a", "b", "c", "\n", "c">>,
      <<"<", "u", ">", "<", "b", ">", "a", "\n", "b", "\n", "c">>,
      <<" ">> }

\* records starting at either end of the time range and ending at its
\* beginning, 1 ms in, or past its end
OrderRecords ==
    [index : {1, 2}, start : {0, MaxTime}, end : {0, 1, MaxTime + 1},
     content : OrderContents]

\* thresholds: 2 characters per line, 2 lines, exactly 1 ms
OrderArgs ==
    [max_chars_per_line |-> 2, max_lines_per_sub |-> 2,
     min_duration_ms |-> 1, max_duration_ms |-> 1]

InitOrder ==
    /\ \E n \in 1..MaxRuleSubs :
          \E subs \in [1..n -> OrderRecords] : content = compose(subs)
    /\ args = OrderArgs
    /\ outcome = NoOutcome
    /\ FixerIdle
    /\ RunIdle

SpecOrder == InitOrder /\ [][NextValidate]_vars

\* what a diagnostic is about: its wording, its record index and, for an
\* over-long line, the length found
Kind(id, index, a) == [id |-> id, index |-> index, a |-> a]

KindOf(e) ==
    Kind(e.message.id, e.subtitle_index,
         IF e.message.id = "line_too_long" THEN e.message.a ELSE 0)

Kinds(errors) == [j \in 1..Len(errors) |-> KindOf(errors[j])]

When(cond, id, sub) == IF cond THEN <<Kind(id, Some(sub.index), 0)>> ELSE <<>>

\* the over-long lines among lines[i..], in content-line order
RECURSIVE LongLineKinds(_, _, _, _)
LongLineKinds(sub, lines, i, a) ==
    IF i > Len(lines) THEN <<>>
    ELSE (IF Len(StripTags(lines[i])) > a.max_chars_per_line
          THEN <<Kind("line_too_long", Some(sub.index),
                      Len(StripTags(lines[i])))>>
          ELSE <<>>)
         \o LongLineKinds(sub, lines, i + 1, a)

\* the tag number t has as many opening forms as closing forms in text
TagBalanced(text, t) ==
    Occurrences(Lower(text), <<"<">> \o common_tags[t] \o <<">">>)
    + Occurrences(Lower(text), <<"<">> \o common_tags[t] \o <<" ">>)
    = Occurrences(Lower(text), <<"<", "/">> \o common_tags[t] \o <<">">>)

\* the diagnostics of the record at position k of subs, in the order index,
\* ordering, overlap, below minimum, above maximum, empty content or line
\* count, line length, tag mismatch for i, b, u, font; long says whether
\* over-long lines are reported
RecordKinds(subs, k, a, long) ==
    LET sub      == subs[k]
        prev_end == IF k = 1 THEN 0 ELSE subs[k - 1].end
        text     == Strip(sub.content)
        lines    == SplitNL(text)
    IN  When(sub.index # k, "expected_index", sub)
        \o When(sub.start >= sub.end, "start_not_before_end", sub)
        \o When(sub.start < prev_end, "overlaps_previous", sub)
        \o When(sub.end - sub.start < a.min_duration_ms,
                "less_than_minimum", sub)
        \o When(sub.end - sub.start > a.max_duration_ms,
                "greater_than_maximum", sub)
        \o (IF text = <<>>
            THEN When(TRUE, "empty_content", sub)
            ELSE When(Len(lines) > a.max_lines_per_sub, "too_many_lines", sub)
                 \o (IF long THEN LongLineKinds(sub, lines, 1, a) ELSE <<>>))
        \o When(~TagBalanced(sub.content, 1), TagMessageId[1], sub)
        \o When(~TagBalanced(sub.content, 2), TagMessageId[2], sub)
        \o When(~TagBalanced(sub.content, 3), TagMessageId[3], sub)
        \o When(~TagBalanced(sub.content, 4), TagMessageId[4], sub)

\* the diagnostics of the first k records, record after record
RECURSIVE SequenceKinds(_, _, _, _)
SequenceKinds(subs, k, a, long) ==
    IF k = 0 THEN <<>>
    ELSE SequenceKinds(subs, k - 1, a, long) \o RecordKinds(subs, k, a, long)

\* some record of subs has an over-long line
HasLongLine(subs, a) ==
    \E k \in 1..Len(subs) :
        /\ Strip(subs[k].content) # <<>>
        /\ LongLineKinds(subs[k], SplitNL(Strip(subs[k].content)), 1, a) # <<>>

RaisesExactlyOnLongLine ==
    (outcome.called /\ parse(content).ok) =>
        (outcome.raised <=> HasLongLine(parse(content).subs, args))

LongLinesInOrder ==
    /\ outcome.called
    /\ Len(ParsedSubs) = 1
    /\ LET errors == script_validate_srt_content(content, args)
       IN  /\ Len(errors) = 7
           /\ [j \in 1..7 |-> errors[j].message.id]
                  = <<"too_many_lines", "line_too_long", "line_too_long",
                      "mismatched_i_tag", "mismatched_b_tag",
                      "mismatched_u_tag", "mismatched_font_tag">>
           /\ errors[2].message.a = 4
           /\ errors[3].message.a = 3

\* the positions of the parsed records whose trimmed text is empty
BlankRecords == { k \in 1..Len(ParsedSubs) : Strip(ParsedSubs[k].content) = <<>> }

\* the parsed records with every empty text replaced by the text "a"
WithPlainText ==
    [k \in 1..Len(ParsedSubs) |->
        IF k \in BlankRecords
        THEN [ParsedSubs[k] EXCEPT !.content = <<"a">>]
        ELSE ParsedSubs[k]]

IsEmptyContentKind(kind) == kind.id = "empty_content"

IsOtherKind(kind) == kind.id # "empty_content"

\* the diagnostics differ from those of the same records with the text "a"
\* in place of the empty texts by one Content Error for each empty text
\* and nothing else
OnlyContentErrorAdded(kinds, plain_kinds) ==
    /\ Len(SelectSeq(kinds, IsEmptyContentKind)) = Cardinality(BlankRecords)
    /\ \A k \in BlankRecords :
           \E j \in 1..Len(kinds) :
               kinds[j] = Kind("empty_content", Some(ParsedSubs[k].index), 0)
    /\ SelectSeq(kinds, IsOtherKind) = plain_kinds

\* C26: for a record whose trimmed text is empty the rule engine emits
\* exactly one Content Error and neither a line-count nor a line-length
\* Format Error; the index, ordering, overlap and duration checks of that
\* record and all checks of the following records are as they are with a
\* text in its place, the previous end being taken from that record too.
C26_EmptyContentOnly ==
    (outcome.called /\ parse(content).ok /\ BlankRecords # {}) =>
        /\ ~outcome.raised
        /\ OnlyContentErrorAdded(
               Kinds(outcome.errors),
               Kinds(validate_srt_content(compose(WithPlainText),
                                          args).errors))

\* what the code keeps of C26: it holds of every call that returns, and of
\* the copy of the function in validate_srt.py
EmptyContentOnlyWhenReturned ==
    (outcome.called /\ parse(content).ok /\ BlankRecords # {}) =>
        /\ ~outcome.raised =>
               /\ ~validate_srt_content(compose(WithPlainText), args).raised
               /\ OnlyContentErrorAdded(
                      Kinds(outcome.errors),
                      Kinds(validate_srt_content(compose(WithPlainText),
                                                 args).errors))
        /\ OnlyContentErrorAdded(
               Kinds(script_validate_srt_content(content, args)),
               Kinds(script_validate_srt_content(compose(WithPlainText),
                                                 args)))

\* a record with an empty text was followed by one that starts before its
\* end, and the call returned the Content Error of the first and the
\* overlap of the second
EmptyContentThenOverlap ==
    /\ outcome.called
    /\ ~outcome.raised
    /\ Len(ParsedSubs) = 2
    /\ BlankRecords = {1}
    /\ ParsedSubs[1].index = 1
    /\ ParsedSubs[2].index = 2
    /\ \E i, j \in 1..Len(outcome.errors) :
           /\ i < j
           /\ KindOf(outcome.errors[i]) = Kind("empty_content", Some(1), 0)
           /\ KindOf(outcome.errors[j]) = Kind("overlaps_previous", Some(2), 0)

\* a record with an empty text was validated together with a record that
\* has an over-long line, and the call raised
EmptyContentLost ==
    /\ outcome.called
    /\ outcome.raised
    /\ BlankRecords # {}

(***************************************************************************)
(* Further claims about the Fixer (checked under SpecFix).                 *)
(***************************************************************************)
\* the label is in the fix summary of the last call
Reported(label) == \E j \in 1..Len(fixes_applied) : fixes_applied[j] = label

\* some record handed to the last call is not numbered with its position
SomeIndexOutOfPlace == \E k \in 1..Len(subtitles) : subtitles[k].index # k

\* C27: re-indexing is decided once for the whole sequence: Numbering Fix
\* is reported if and only if the index of at least one input record
\* differs from its 1-based position, and then every record is numbered
\* with its position; otherwise no index is changed.
C27_GlobalReindex ==
    fix_calls >= 1 =>
        /\ Len(fixed_subs) = Len(subtitles)
        /\ Reported("Numbering Fix") <=> SomeIndexOutOfPlace
        /\ SomeIndexOutOfPlace =>
               \A k \in 1..Len(fixed_subs) : fixed_subs[k].index = k
        /\ ~SomeIndexOutOfPlace =>
               \A k \in 1..Len(fixed_subs) :
                   fixed_subs[k].index = subtitles[k].index

\* two records, the first numbered 1 and the second numbered 1 as well: the
\* one record out of place made the call renumber and report it
C27_Witness ==
    /\ fix_calls = 1
    /\ IndexColumn(subtitles) = <<1, 1>>
    /\ IndexColumn(fixed_subs) = <<1, 2>>
    /\ Reported("Numbering Fix")

\* the first record out of place and the last one in place
FirstOutOfPlaceRenumbered ==
    /\ fix_calls = 1
    /\ IndexColumn(subtitles) = <<2, 2>>
    /\ IndexColumn(fixed_subs) = <<1, 2>>
    /\ Reported("Numbering Fix")

\* a start or an end of some record was changed by the last call
SomeTimeChanged ==
    \E k \in 1..Len(subtitles) :
        \/ fixed_subs[k].start # subtitles[k].start
        \/ fixed_subs[k].end # subtitles[k].end

\* the text of some record was changed by the last call
SomeTextChanged ==
    \E k \in 1..Len(subtitles) : fixed_subs[k].content # subtitles[k].content

\* C28: the fix summary names exactly the kinds of change made, each label
\* at most once: Timecode Fix if and only if a start or an end was changed,
\* Formatting Fix if and only if the normalised text of a record (carriage
\* returns removed, three or more line breaks collapsed to two, trimmed)
\* differs from its text; an empty summary means that every index, start,
\* end and text is the input's; the number and order of the records is
\* kept.
C28_SummaryMatchesChanges ==
    fix_calls >= 1 =>
        /\ Len(fixed_subs) = Len(subtitles)
        /\ \A i, j \in 1..Len(fixes_applied) :
               fixes_applied[i] = fixes_applied[j] => i = j
        /\ \A j \in 1..Len(fixes_applied) :
               fixes_applied[j]
                   \in {"Timecode Fix", "Formatting Fix", "Numbering Fix"}
        /\ Reported("Timecode Fix") <=> SomeTimeChanged
        /\ Reported("Formatting Fix") <=> SomeTextChanged
        /\ \A k \in 1..Len(subtitles) :
               fixed_subs[k].content
                   = Strip(CollapseNewlines(RemoveCR(subtitles[k].content)))
        /\ fixes_applied = <<>> => fixed_subs = subtitles

\* two records both needed a timing repair and a text normalisation, and
\* the summary names each kind once
C28_Witness ==
    /\ fix_calls = 1
    /\ Len(subtitles) = 2
    /\ \A k \in 1..2 :
           /\ fixed_subs[k].end # subtitles[k].end
           /\ fixed_subs[k].content # subtitles[k].content
    /\ fixed_subs[2].start # subtitles[2].start
    /\ IndexColumn(subtitles) = <<1, 2>>
    /\ fixes_applied = <<"Timecode Fix", "Formatting Fix">>

(***************************************************************************)
(* The Fixer and the rule engine on the same record sequence: the sequence *)
(* is composed and validated, fixed, written, and the written text is      *)
(* validated again (checked under SpecAgree).                              *)
(***************************************************************************)
\* a short text, and one with a line over max_chars_per_line
AgreeContents == { <<"a">>, <<"a", "b", "c">> }

AgreeRecords ==
    [index : {1, 2}, start : 0..MaxTime, end : 0..MaxTime,
     content : AgreeContents]

\* thresholds: 2 characters per line, 2 lines, any duration within the times
AgreeArgs ==
    [max_chars_per_line |-> 2, max_lines_per_sub |-> 2,
     min_duration_ms |-> 0, max_duration_ms |-> 2 * MaxTime + 2 * MaxSubs]

InitAgree ==
    /\ \E n \in 1..MaxSubs : subtitles \in [1..n -> AgreeRecords]
    /\ content = compose(subtitles)
    /\ args = AgreeArgs
    /\ outcome = NoOutcome
    /\ fixed_subs = <<>>
    /\ fixes_applied = <<>>
    /\ fix_calls = 0
    /\ written = <<>>
    /\ RunIdle

\* the text written by write_srt is read back and validated
Revalidate ==
    /\ written # <<>>
    /\ content # written
    /\ content' = written
    /\ outcome' = validate_srt_content(written, args)
    /\ UNCHANGED <<subtitles, fixed_subs, fixes_applied, fix_calls, written,
                   args, run_vars>>

NextAgree == Validate \/ Fix \/ write_srt \/ Revalidate

SpecAgree == InitAgree /\ [][NextAgree]_vars

\* some diagnostic of the list is of the type
HasErrorOfType(errors, error_type) ==
    \E j \in 1..Len(errors) : errors[j].error_type = error_type

\* the sequence handed to the Fixer has been validated as well
SameSequenceFixedAndValidated ==
    /\ outcome.called
    /\ fix_calls = 1
    /\ content = compose(subtitles)

\* C29: the Fixer and the rule engine agree on what is defective: on the
\* same record sequence the Fixer reports Timecode Fix if and only if the
\* rule engine reports at least one Timecode Error, and Numbering Fix if
\* and only if it reports at least one Index Error.
C29_FixerAgreesWithRules ==
    SameSequenceFixedAndValidated =>
        /\ Reported("Timecode Fix")
               <=> HasErrorOfType(outcome.errors, "Timecode Error")
        /\ Reported("Numbering Fix")
               <=> HasErrorOfType(outcome.errors, "Index Error")

\* what the code keeps of C29: the two agree on every call of the rule
\* engine that returns, and the Fixer agrees with the copy of the rule
\* engine in validate_srt.py on every sequence
AgreeWhenReturned ==
    SameSequenceFixedAndValidated =>
        /\ ~outcome.raised =>
               /\ Reported("Timecode Fix")
                      <=> HasErrorOfType(outcome.errors, "Timecode Error")
               /\ Reported("Numbering Fix")
                      <=> HasErrorOfType(outcome.errors, "Index Error")
        /\ LET errors == script_validate_srt_content(content, args)
           IN  /\ Reported("Timecode Fix")
                      <=> HasErrorOfType(errors, "Timecode Error")
               /\ Reported("Numbering Fix")
                      <=> HasErrorOfType(errors, "Index Error")

\* the Fixer repaired the times and the numbering of a sequence on which
\* the rule engine raised, reporting nothing
FixedButNothingReported ==
    /\ SameSequenceFixedAndValidated
    /\ outcome.raised
    /\ fixes_applied = <<"Timecode Fix", "Numbering Fix">>

\* the second record starts at the actual end of the first but before its
\* corrected end: the Fixer moves it, the rule engine reports the first
\* record only
MovedBehindCorrectedEnd ==
    /\ SameSequenceFixedAndValidated
    /\ ~outcome.raised
    /\ Len(subtitles) = 2
    /\ subtitles[2].start >= subtitles[1].end
    /\ fixed_subs[2].start # subtitles[2].start
    /\ HasErrorOfType(outcome.errors, "Timecode Error")

\* the text the Fixer's result was written as has been validated
FixedTextValidated ==
    /\ outcome.called
    /\ fix_calls >= 1
    /\ written # <<>>
    /\ content = written

\* C30: the output of the Fixer passes the rules it repairs: the rule
\* engine run on the sequence fix_srt_subtitles returned yields neither an
\* Index Error nor a Timecode Error.
C30_FixedPassesRules ==
    FixedTextValidated =>
        /\ parse(written) = [ok |-> TRUE, subs |-> fixed_subs]
        /\ ~HasErrorOfType(outcome.errors, "Index Error")
        /\ ~HasErrorOfType(outcome.errors, "Timecode Error")
        /\ ~HasErrorOfType(script_validate_srt_content(written, args),
                           "Index Error")
        /\ ~HasErrorOfType(script_validate_srt_content(written, args),
                           "Timecode Error")

\* a sequence that needed renumbering and a timing repair was fixed and
\* written, and the validation of the written text returned
C30_Witness ==
    /\ FixedTextValidated
    /\ ~outcome.raised
    /\ outcome.parsed
    /\ Len(fixed_subs) = 2
    /\ fixes_applied = <<"Timecode Fix", "Numbering Fix">>
    /\ content # compose(subtitles)

====
